---------------------------- MODULE Spec2Model ----------------------------
(***************************************************************************)
(* A model of the finch_ai question-answering pipeline: the Security Gate  *)
(* (security.py), the Generation Gateway (ai_gateway.py), the Intent       *)
(* Router (agents/supervisor.py) and the SQL Generation Agent              *)
(* (agents/sql_agent.py).                                                  *)
(*                                                                         *)
(* A Python str is a sequence of one-character strings, so that upper(),   *)
(* strip(), count(), 'in' and the regular expressions of the source are    *)
(* computed character by character.  An Optional value is a sequence of    *)
(* length 0 (None) or 1 (the value).  A formatted message (an f-string) is *)
(* the concatenation of its parts.                                         *)
(***************************************************************************)
EXTENDS Integers, Sequences, FiniteSets, TLC

VARIABLES
    \* a direct call of validate_query and sanitize_query
    v_pc, v_sql, v_verdict, v_sanitized,
    \* a call of execute_safe_query: its position, its argument, its locals
    \* sql, results and e, and the value it returned
    g_pc, g_arg, g_sql, g_results, g_exc, g_ret,
    \* the database session: the statements db.execute was given, with their
    \* outcome, and whether a statement timeout is in effect
    db_log, db_timeout,
    \* the one AIGateway: its default_model, its token_usage, and per coroutine
    \* the state of its call of generate
    default_model, token_usage, gw,
    \* a call of SupervisorAgent.classify_intent: its position, what the
    \* awaited ai_gateway.generate gave it, and the intent it returned
    s_pc, s_outcome, s_intent,
    \* a call of SQLAgent.generate_and_execute: its position, what the awaited
    \* ai_gateway.generate gave it, its locals sql_query and confidence, the
    \* functions of the Security Gate it has called, and the dict it returned
    a_pc, a_outcome, a_sql_query, a_confidence, a_calls, a_ret,
    \* a call of DocAgent.answer_documentation: its position, what the awaited
    \* ai_gateway.generate gave it, and the dict it returned
    d_pc, d_outcome, d_ret,
    \* a call of SupervisorAgent.route_query: its position, its local intent,
    \* and the dict it returned
    r_pc, r_intent, r_ret,
    \* a call of ValidatorAgent.validate_query: its position, its arguments
    \* user_question, generated_sql and results, the active golden queries the
    \* session holds, the golden query matched, and the dict it returned
    va_pc, va_question, va_generated_sql, va_results, golden_queries, va_golden, va_ret,
    \* a request to the endpoint chat: its position, the number of calls of
    \* validate_query it made, its local trust_score, and the ChatResponse
    c_pc, c_validator_calls, c_trust_score, c_ret,
    \* the one RateLimiter: its _requests, the clock time.time() reads, and the
    \* calls of is_allowed made so far with their answers
    rl_requests, rl_now, rl_log

validateVars == <<v_pc, v_sql, v_verdict, v_sanitized>>
gateVars == <<g_pc, g_arg, g_sql, g_results, g_exc, g_ret>>
dbVars == <<db_log, db_timeout>>
gatewayVars == <<default_model, token_usage, gw>>
supervisorVars == <<s_pc, s_outcome, s_intent>>
agentVars == <<a_pc, a_outcome, a_sql_query, a_confidence, a_calls, a_ret>>
docVars == <<d_pc, d_outcome, d_ret>>
routeVars == <<r_pc, r_intent, r_ret>>
validatorVars == <<va_pc, va_question, va_generated_sql, va_results, golden_queries,
                   va_golden, va_ret>>
chatVars == <<c_pc, c_validator_calls, c_trust_score, c_ret>>
rateVars == <<rl_requests, rl_now, rl_log>>
callerVars == <<chatVars, rateVars>>
\* the callers and the neighbours of the SQL agent
pipelineVars == <<docVars, routeVars, validatorVars, callerVars>>
vars == <<validateVars, gateVars, dbVars, gatewayVars, supervisorVars, agentVars,
          pipelineVars>>

-----------------------------------------------------------------------------
(* Bounds of the model *)

\* the number of chunks an input SQL string is assembled from
MaxSqlAtoms == 3

\* the number of coroutines that call AIGateway.generate, once each
MaxCoroutines == 2

\* the largest token count a remote backend reports for one response
MaxTokens == 2

\* the number of chunks a backend's answer to the classifier is assembled from
MaxLabelAtoms == 3

\* the number of chunks a backend's answer to the SQL agent is assembled from
MaxResponseAtoms == 3

-----------------------------------------------------------------------------
(* Optional values *)

None == <<>>
Some(x) == <<x>>

-----------------------------------------------------------------------------
(* Python str operations *)

LowerLetters == <<"a", "b", "c", "d", "e", "f", "g", "h", "i", "j", "k", "l", "m",
                  "n", "o", "p", "q", "r", "s", "t", "u", "v", "w", "x", "y", "z">>
UpperLetters == <<"A", "B", "C", "D", "E", "F", "G", "H", "I", "J", "K", "L", "M",
                  "N", "O", "P", "Q", "R", "S", "T", "U", "V", "W", "X", "Y", "Z">>
Digits == {"0", "1", "2", "3", "4", "5", "6", "7", "8", "9"}
LowerSet == {LowerLetters[i] : i \in 1..26}
UpperSet == {UpperLetters[i] : i \in 1..26}

\* the characters the regular expression classes \w and \s match
WordChars == LowerSet \cup UpperSet \cup Digits \cup {"_"}
Whitespace == {" ", "\n", "\t"}

UpperMap == [c \in LowerSet |-> UpperLetters[CHOOSE i \in 1..26 : LowerLetters[i] = c]]
LowerMap == [c \in UpperSet |-> LowerLetters[CHOOSE i \in 1..26 : UpperLetters[i] = c]]
UpperChar(c) == IF c \in LowerSet THEN UpperMap[c] ELSE c
LowerChar(c) == IF c \in UpperSet THEN LowerMap[c] ELSE c

\* str.upper() and str.lower()
upper(s) == [i \in 1..Len(s) |-> UpperChar(s[i])]
lower(s) == [i \in 1..Len(s) |-> LowerChar(s[i])]

\* w occurs in s at position i
MatchAt(s, i, w) ==
    /\ i >= 1
    /\ i + Len(w) - 1 <= Len(s)
    /\ \A k \in 1..Len(w) : s[i + k - 1] = w[k]

\* w occurs in s at position i, letter case ignored (re.IGNORECASE)
MatchAtI(s, i, w) ==
    /\ i >= 1
    /\ i + Len(w) - 1 <= Len(s)
    /\ \A k \in 1..Len(w) : UpperChar(s[i + k - 1]) = UpperChar(w[k])

\* 'w in s'
Contains(s, w) == \E i \in 1..(Len(s) + 1) : MatchAt(s, i, w)

\* str.count(w): the non-overlapping occurrences of w in s from position i on
RECURSIVE CountFrom(_, _, _)
CountFrom(s, w, i) ==
    IF i + Len(w) - 1 > Len(s) THEN 0
    ELSE IF MatchAt(s, i, w) THEN 1 + CountFrom(s, w, i + Len(w))
    ELSE CountFrom(s, w, i + 1)

count(s, w) == CountFrom(s, w, 1)

\* str.lstrip(), str.rstrip() and str.strip() of whitespace
RECURSIVE lstrip(_)
lstrip(s) == IF s /= <<>> /\ Head(s) \in Whitespace THEN lstrip(Tail(s)) ELSE s

RECURSIVE rstripChars(_, _)
rstripChars(s, chars) ==
    IF s /= <<>> /\ s[Len(s)] \in chars
    THEN rstripChars(SubSeq(s, 1, Len(s) - 1), chars)
    ELSE s

strip(s) == rstripChars(lstrip(s), Whitespace)

\* re.sub(r'\s+', ' ', s): every run of whitespace becomes one space
RECURSIVE CollapseWhitespace(_)
CollapseWhitespace(s) ==
    IF s = <<>> THEN <<>>
    ELSE IF Head(s) \in Whitespace
         THEN <<" ">> \o CollapseWhitespace(lstrip(s))
         ELSE <<Head(s)>> \o CollapseWhitespace(Tail(s))

\* the regular expression assertion \b before position p of s
IsWordAt(s, p) == p \in 1..Len(s) /\ s[p] \in WordChars
WordBoundary(s, p) == IsWordAt(s, p - 1) /= IsWordAt(s, p)

-----------------------------------------------------------------------------
(* security.py: QuerySecurityValidator *)

kwDROP == <<"D", "R", "O", "P">>
kwDELETE == <<"D", "E", "L", "E", "T", "E">>
kwTRUNCATE == <<"T", "R", "U", "N", "C", "A", "T", "E">>
kwUPDATE == <<"U", "P", "D", "A", "T", "E">>
kwINSERT == <<"I", "N", "S", "E", "R", "T">>
kwALTER == <<"A", "L", "T", "E", "R">>
kwCREATE == <<"C", "R", "E", "A", "T", "E">>
kwGRANT == <<"G", "R", "A", "N", "T">>
kwREVOKE == <<"R", "E", "V", "O", "K", "E">>
kwEXEC == <<"E", "X", "E", "C">>
kwEXECUTE == <<"E", "X", "E", "C", "U", "T", "E">>
kwSELECT == <<"S", "E", "L", "E", "C", "T">>

\* the patterns, in the order of the list: r'\bKW\b' is "word", r';.*KW' is "after_semi"
BLOCKED_KEYWORDS == <<
    [kind |-> "word", kw |-> kwDROP, pattern |-> "\\bDROP\\b"],
    [kind |-> "word", kw |-> kwDELETE, pattern |-> "\\bDELETE\\b"],
    [kind |-> "word", kw |-> kwTRUNCATE, pattern |-> "\\bTRUNCATE\\b"],
    [kind |-> "word", kw |-> kwUPDATE, pattern |-> "\\bUPDATE\\b"],
    [kind |-> "word", kw |-> kwINSERT, pattern |-> "\\bINSERT\\b"],
    [kind |-> "word", kw |-> kwALTER, pattern |-> "\\bALTER\\b"],
    [kind |-> "word", kw |-> kwCREATE, pattern |-> "\\bCREATE\\b"],
    [kind |-> "word", kw |-> kwGRANT, pattern |-> "\\bGRANT\\b"],
    [kind |-> "word", kw |-> kwREVOKE, pattern |-> "\\bREVOKE\\b"],
    [kind |-> "word", kw |-> kwEXEC, pattern |-> "\\bEXEC\\b"],
    [kind |-> "word", kw |-> kwEXECUTE, pattern |-> "\\bEXECUTE\\b"],
    [kind |-> "after_semi", kw |-> kwDROP, pattern |-> ";.*DROP"],
    [kind |-> "after_semi", kw |-> kwDELETE, pattern |-> ";.*DELETE"],
    [kind |-> "after_semi", kw |-> kwUPDATE, pattern |-> ";.*UPDATE"] >>

\* re.match in the place of re.search: the keyword is looked for at the start only
SearchWord_match(s, kw) ==
    /\ MatchAtI(s, 1, kw)
    /\ WordBoundary(s, 1 + Len(kw))

\* re.search(r'\bKW\b', s, re.IGNORECASE)
SearchWord(s, kw) ==
    \E i \in 1..Len(s) :
        /\ MatchAtI(s, i, kw)
        /\ WordBoundary(s, i)
        /\ WordBoundary(s, i + Len(kw))

\* re.search(r';.*KW', s, re.IGNORECASE): the dot matches no line break
SearchAfterSemi(s, kw) ==
    \E i \in 1..Len(s) : \E j \in (i + 1)..Len(s) :
        /\ s[i] = ";"
        /\ MatchAtI(s, j, kw)
        /\ \A k \in (i + 1)..(j - 1) : s[k] /= "\n"

SearchPattern(s, p) ==
    IF p.kind = "word" THEN SearchWord(s, p.kw) ELSE SearchAfterSemi(s, p.kw)

\* r'^SELECT\b' in the place of r'^\s*SELECT\b'
MatchLeadingSelect_nospace(s) ==
    MatchAt(s, 1, kwSELECT) /\ WordBoundary(s, Len(kwSELECT) + 1)

\* re.match(r'^\s*SELECT\b', s)
MatchLeadingSelect(s) ==
    LET rest == lstrip(s)
    IN  MatchAt(rest, 1, kwSELECT) /\ WordBoundary(rest, Len(kwSELECT) + 1)

Verdict(ok, reason) == [is_valid |-> ok, reason |-> reason]

\* the sql the blocked-keyword patterns are searched in
SearchedText(sql) == upper(sql)

validate_query(sql) ==
    IF sql = <<>> \/ strip(sql) = <<>>
    THEN Verdict(FALSE, Some(<<"Empty query">>))
    ELSE LET sql_upper == SearchedText(sql)
             hits == {n \in 1..Len(BLOCKED_KEYWORDS) :
                         SearchPattern(sql_upper, BLOCKED_KEYWORDS[n])}
             first == CHOOSE n \in hits : \A m \in hits : n <= m
         IN  IF hits /= {}
             THEN Verdict(FALSE, Some(<<"Blocked keyword detected: ",
                                        BLOCKED_KEYWORDS[first].pattern>>))
             ELSE IF count(sql, <<";">>) > 1
             THEN Verdict(FALSE, Some(<<"Multiple statements not allowed">>))
             ELSE IF ~MatchLeadingSelect(sql_upper)
             THEN Verdict(FALSE, Some(<<"Only SELECT queries are allowed">>))
             ELSE IF /\ \/ Contains(sql, <<"-", "-">>)
                        \/ Contains(sql, <<"/", "*">>)
                        \/ Contains(sql, <<"*", "/">>)
                     /\ count(sql, <<"-", "-">>) > 2
             THEN Verdict(FALSE, Some(<<"Suspicious comment patterns detected">>))
             ELSE Verdict(TRUE, None)

\* sql.rstrip(';').strip(), then re.sub(r'\s+', ' ', sql)
sanitize_query(sql) == CollapseWhitespace(strip(rstripChars(sql, {";"})))

-----------------------------------------------------------------------------
(* The SQL strings the model feeds to the Security Gate: every concatenation *)
(* of at most MaxSqlAtoms of these chunks.                                   *)

SqlAtoms == {
    kwDROP, kwDELETE, kwTRUNCATE, kwUPDATE, kwINSERT, kwALTER, kwCREATE,
    kwGRANT, kwREVOKE, kwEXEC, kwEXECUTE,
    <<"D", "r", "o", "p">>, <<"d", "r", "o", "p">>,
    <<"U", "P", "D", "A", "T", "E", "D">>,
    kwSELECT, <<"s", "e", "l", "e", "c", "t">>,
    <<"S", "E", "L", "E", "C", "T", " ", "1">>,
    <<" ", "S", "E", "L", "E", "C", "T", " ", "2">>,
    <<" ">>, <<"\n">>, <<";">>, <<"x">>, <<"_">>,
    <<"-", "-">>, <<"-", "-", "-", "-">> }

\* the chunks of the strings given to execute_safe_query, whose steps depend
\* on the string only through validate_query and sanitize_query
GateSqlAtoms == {
    kwDROP, <<"d", "r", "o", "p">>,
    <<"s", "e", "l", "e", "c", "t">>,
    <<"S", "E", "L", "E", "C", "T", " ", "1">>,
    <<" ", "S", "E", "L", "E", "C", "T", " ", "2">>,
    <<" ">>, <<"\n">>, <<";">>, <<"x">>,
    <<"-", "-", "-", "-">> }

\* the concatenations of at most n elements of atoms
RECURSIVE Concats(_, _)
Concats(atoms, n) ==
    IF n = 0 THEN {<<>>}
    ELSE LET shorter == Concats(atoms, n - 1)
         IN  shorter \cup {s \o a : s \in shorter, a \in atoms}

SqlInputs == Concats(SqlAtoms, MaxSqlAtoms)
GateSqlInputs == Concats(GateSqlAtoms, MaxSqlAtoms)


-----------------------------------------------------------------------------
(* A direct call of validate_query, and of sanitize_query on what passed *)

ValidateIdle ==
    /\ v_pc = "idle"
    /\ v_sql = <<>>
    /\ v_verdict = None
    /\ v_sanitized = None

ValidateCall ==
    /\ v_pc = "call"
    /\ v_verdict' = Some(validate_query(v_sql))
    /\ v_pc' = "validated"
    /\ UNCHANGED <<pipelineVars, v_sql, v_sanitized, gateVars, dbVars, gatewayVars, supervisorVars, agentVars>>

SanitizeCall ==
    /\ v_pc = "validated"
    /\ v_verdict[1].is_valid
    /\ v_sanitized' = Some(sanitize_query(v_sql))
    /\ v_pc' = "sanitized"
    /\ UNCHANGED <<pipelineVars, v_sql, v_verdict, gateVars, dbVars, gatewayVars, supervisorVars, agentVars>>

-----------------------------------------------------------------------------
(* The database session behind db.execute *)

\* execute_safe_query's parameter timeout_seconds
timeout_seconds == 5

Statement(kind, text, raised) == [kind |-> kind, text |-> text, raised |-> raised]

\* str(e) of the exception a failing step raises
ErrorOf(step) == <<"error raised by ", step>>

\* what result.fetchall() and result.keys() may hold
DbColumns == <<"k">>
\* a value of a row is a number or NULL: Some(n) or None
DbRowSets == {<<>>, <<<<Some(1)>>>>, <<<<Some(1)>>, <<Some(2)>>>>, <<<<None>>>>}

\* [dict(zip(columns, row)) for row in rows]
RowsToDicts(columns, rows) ==
    [i \in 1..Len(rows) |->
        [c \in {columns[j] : j \in 1..Len(columns)} |->
            rows[i][CHOOSE j \in 1..Len(columns) : columns[j] = c]]]

DbIdle ==
    /\ db_log = <<>>
    /\ db_timeout = FALSE

-----------------------------------------------------------------------------
(* security.py: QuerySecurityValidator.execute_safe_query, step by step *)

GateResult(success, results, error) ==
    [success |-> success, results |-> results, error |-> error]

GateIdle ==
    /\ g_pc = "idle"
    /\ g_arg = <<>>
    /\ g_sql = <<>>
    /\ g_results = None
    /\ g_exc = None
    /\ g_ret = None

\* the gate without its validation: sanitize and go on
GateValidate_skipped ==
    /\ g_pc = "validate"
    /\ g_sql' = sanitize_query(g_sql)
    /\ g_pc' = "set_timeout"
    /\ UNCHANGED <<pipelineVars, g_ret, g_arg, g_results, g_exc, validateVars, dbVars, gatewayVars, supervisorVars, agentVars>>

\* lines 105-112: validate, return early when invalid, sanitize
GateValidate ==
    /\ g_pc = "validate"
    /\ LET v == validate_query(g_sql)
       IN  IF ~v.is_valid
           THEN /\ g_ret' = Some(GateResult(FALSE, None,
                        Some(<<"Security validation failed: ">> \o v.reason[1])))
                /\ g_pc' = "returned"
                /\ g_sql' = g_sql
           ELSE /\ g_sql' = sanitize_query(g_sql)
                /\ g_pc' = "set_timeout"
                /\ g_ret' = g_ret
    /\ UNCHANGED <<pipelineVars, g_arg, g_results, g_exc, validateVars, dbVars, gatewayVars, supervisorVars, agentVars>>

\* line 116: SET statement_timeout
GateSetTimeout ==
    /\ g_pc = "set_timeout"
    /\ \E raised \in BOOLEAN :
        /\ db_log' = Append(db_log, Statement("SET statement_timeout", <<>>, raised))
        /\ IF raised
           THEN /\ g_exc' = Some(ErrorOf("SET statement_timeout"))
                /\ g_pc' = "except"
                /\ db_timeout' = db_timeout
           ELSE /\ g_exc' = g_exc
                /\ g_pc' = "execute"
                /\ db_timeout' = TRUE
    /\ UNCHANGED <<pipelineVars, g_arg, g_sql, g_results, g_ret, validateVars, gatewayVars, supervisorVars, agentVars>>

\* line 119: the statement itself
GateExecute ==
    /\ g_pc = "execute"
    /\ \E raised \in BOOLEAN :
        /\ db_log' = Append(db_log, Statement("query", g_sql, raised))
        /\ IF raised
           THEN /\ g_exc' = Some(ErrorOf("query"))
                /\ g_pc' = "except"
           ELSE /\ g_exc' = g_exc
                /\ g_pc' = "fetch"
    /\ UNCHANGED <<pipelineVars, g_arg, g_sql, g_results, g_ret, db_timeout, validateVars, gatewayVars, supervisorVars, agentVars>>

\* lines 122-129: fetch the rows and turn them into dicts
GateFetch ==
    /\ g_pc = "fetch"
    /\ \/ /\ g_exc' = Some(ErrorOf("fetchall"))
          /\ g_pc' = "except"
          /\ g_results' = g_results
       \/ \E rows \in DbRowSets :
            /\ g_results' = Some(IF rows /= <<>> THEN RowsToDicts(DbColumns, rows) ELSE <<>>)
            /\ g_pc' = "reset"
            /\ g_exc' = g_exc
    /\ UNCHANGED <<pipelineVars, g_arg, g_sql, g_ret, dbVars, validateVars, gatewayVars, supervisorVars, agentVars>>

\* lines 132-134: RESET statement_timeout, return the rows
GateReset ==
    /\ g_pc = "reset"
    /\ \E raised \in BOOLEAN :
        /\ db_log' = Append(db_log, Statement("RESET statement_timeout", <<>>, raised))
        /\ IF raised
           THEN /\ g_exc' = Some(ErrorOf("RESET statement_timeout"))
                /\ g_pc' = "except"
                /\ db_timeout' = db_timeout
                /\ g_ret' = g_ret
           ELSE /\ g_exc' = g_exc
                /\ g_pc' = "returned"
                /\ db_timeout' = FALSE
                /\ g_ret' = Some(GateResult(TRUE, g_results, None))
    /\ UNCHANGED <<pipelineVars, g_arg, g_sql, g_results, validateVars, gatewayVars, supervisorVars, agentVars>>

\* the handler without its RESET statement_timeout
GateExcept_no_reset ==
    /\ g_pc = "except"
    /\ g_ret' = Some(GateResult(FALSE, None, Some(g_exc[1])))
    /\ g_pc' = "returned"
    /\ UNCHANGED <<pipelineVars, g_arg, g_sql, g_results, g_exc, validateVars, dbVars, gatewayVars, supervisorVars, agentVars>>

\* the handler with its RESET statement_timeout outside any try: the exception
\* of the RESET leaves execute_safe_query
GateExcept_reset_unguarded ==
    /\ g_pc = "except"
    /\ \E raised \in BOOLEAN :
        /\ db_log' = Append(db_log, Statement("RESET statement_timeout", <<>>, raised))
        /\ db_timeout' = IF raised THEN db_timeout ELSE FALSE
        /\ g_ret' = IF raised THEN g_ret ELSE Some(GateResult(FALSE, None, Some(g_exc[1])))
        /\ g_pc' = IF raised THEN "raised" ELSE "returned"
    /\ UNCHANGED <<pipelineVars, g_arg, g_sql, g_results, g_exc, validateVars, gatewayVars, supervisorVars, agentVars>>

\* lines 136-145: the handler: RESET statement_timeout, whose own exception is
\* swallowed, then return the error
GateExcept ==
    /\ g_pc = "except"
    /\ \E raised \in BOOLEAN :
        /\ db_log' = Append(db_log, Statement("RESET statement_timeout", <<>>, raised))
        /\ db_timeout' = IF raised THEN db_timeout ELSE FALSE
    /\ g_ret' = Some(GateResult(FALSE, None, Some(g_exc[1])))
    /\ g_pc' = "returned"
    /\ UNCHANGED <<pipelineVars, g_arg, g_sql, g_results, g_exc, validateVars, gatewayVars, supervisorVars, agentVars>>

execute_safe_query ==
    \/ GateValidate
    \/ GateSetTimeout
    \/ GateExecute
    \/ GateFetch
    \/ GateReset
    \/ GateExcept

-----------------------------------------------------------------------------
(* ai_gateway.py: AIGateway *)

\* the values of the enum AIProvider
AIProvider_OPENAI == "openai"
AIProvider_GEMINI == "gemini"
AIProvider_GROQ == "groq"
AIProvider_LOCAL == "local"
AIProvider == {AIProvider_OPENAI, AIProvider_GEMINI, AIProvider_GROQ, AIProvider_LOCAL}

\* a provider name that is no value of AIProvider
UnknownProvider == "other"

\* what a caller passes as model, and what DEFAULT_AI_MODEL may hold
RequestedModels == {None} \cup {Some(p) : p \in AIProvider \cup {UnknownProvider}}
DefaultModels == AIProvider \cup {UnknownProvider}

\* len(response_text.split()) of the two texts of _generate_stub_response
StubSqlTokens == 18
StubTextTokens == 19

\* @retry(stop=stop_after_attempt(3), ...)
stop_after_attempt == 3

Coroutines == 1..MaxCoroutines

\* the local stub may raise as the remote backends may
MayRaise_local_too(provider) == TRUE

\* whether a call of _generate_with_provider(provider) may return, may raise
MayReturn(provider) == provider \in AIProvider
MayRaise(provider) == provider /= AIProvider_LOCAL

\* the token counts a result of provider may carry
TokenCounts(provider) ==
    IF provider = AIProvider_LOCAL THEN {StubSqlTokens, StubTextTokens} ELSE 1..MaxTokens

\* the dict a _generate_<provider> method returns
ProviderResult(provider, tokens) ==
    [provider |-> provider, tokens |-> tokens, fallback_used |-> FALSE]

\* no fallback at all
get_fallback_order_empty(primary) == <<>>

\* the primary is not removed from the list
get_fallback_order_keeps_primary(primary) ==
    <<AIProvider_GROQ, AIProvider_OPENAI, AIProvider_GEMINI, AIProvider_LOCAL>>

\* _get_fallback_order: all_providers without the primary
get_fallback_order(primary) ==
    LET all_providers == <<AIProvider_GROQ, AIProvider_OPENAI, AIProvider_GEMINI, AIProvider_LOCAL>>
    IN  SelectSeq(all_providers, LAMBDA p : p /= primary)

\* _track_usage without the count of requests of the backend
track_usage_backend_uncounted(usage, key, tokens) ==
    LET bp == IF key \in DOMAIN usage.by_provider
              THEN usage.by_provider
              ELSE usage.by_provider @@ (key :> [requests |-> 0, tokens |-> 0])
    IN  [total_requests |-> usage.total_requests + 1,
         total_tokens |-> usage.total_tokens + tokens,
         by_provider |-> [bp EXCEPT ![key] = [requests |-> @.requests,
                                              tokens |-> @.tokens + tokens]]]

\* _track_usage writing back the entry of the backend from a fresh one, as an
\* update torn by another call would
track_usage_torn(usage, key, tokens) ==
    [total_requests |-> usage.total_requests + 1,
     total_tokens |-> usage.total_tokens + tokens,
     by_provider |-> [p \in DOMAIN usage.by_provider \cup {key} |->
                        IF p = key THEN [requests |-> 1, tokens |-> tokens]
                        ELSE usage.by_provider[p]]]

\* _track_usage
track_usage(usage, key, tokens) ==
    LET bp == IF key \in DOMAIN usage.by_provider
              THEN usage.by_provider
              ELSE usage.by_provider @@ (key :> [requests |-> 0, tokens |-> 0])
    IN  [total_requests |-> usage.total_requests + 1,
         total_tokens |-> usage.total_tokens + tokens,
         by_provider |-> [bp EXCEPT ![key] = [requests |-> @.requests + 1,
                                              tokens |-> @.tokens + tokens]]]

Attempt(provider, ok, pass) == [provider |-> provider, ok |-> ok, pass |-> pass]

GwIdleState ==
    [pc |-> "idle", model |-> "", fallback_order |-> <<>>, idx |-> 0, pass |-> 0,
     attempts |-> <<>>, result |-> None]

GatewayIdle ==
    /\ default_model = AIProvider_GROQ
    /\ token_usage = [total_requests |-> 0, total_tokens |-> 0, by_provider |-> <<>>]
    /\ gw = [c \in Coroutines |-> GwIdleState]

\* a coroutine calls generate: lines 66-67
GwCall(c) ==
    /\ gw[c].pc = "idle"
    /\ \E model \in RequestedModels :
        gw' = [gw EXCEPT ![c] = [@ EXCEPT
                  !.pc = "primary",
                  !.pass = 1,
                  !.model = IF model = None THEN default_model ELSE model[1]]]
    /\ UNCHANGED <<pipelineVars, default_model, token_usage, validateVars, gateVars, dbVars, supervisorVars, agentVars>>

\* the fallback result keeps the fallback_used of the backend's own dict
FallbackResult_flag_kept(r) == r

\* line 100: result["fallback_used"] = True
FallbackResult(r) == [r EXCEPT !.fallback_used = TRUE]

\* lines 69-87: the primary backend; on an exception, the fallback order
GwPrimary(c) ==
    /\ gw[c].pc = "primary"
    /\ LET model == gw[c].model IN
       \/ /\ MayReturn(model)
          /\ \E tokens \in TokenCounts(model) :
              /\ gw' = [gw EXCEPT ![c] = [@ EXCEPT
                        !.pc = "returned",
                        !.attempts = Append(@, Attempt(model, TRUE, gw[c].pass)),
                        !.result = Some(ProviderResult(model, tokens))]]
              /\ token_usage' = track_usage(token_usage, model, tokens)
       \/ /\ MayRaise(model)
          /\ gw' = [gw EXCEPT ![c] = [@ EXCEPT
                    !.pc = "fallback",
                    !.attempts = Append(@, Attempt(model, FALSE, gw[c].pass)),
                    !.fallback_order = get_fallback_order(model),
                    !.idx = 1]]
          /\ token_usage' = token_usage
    /\ UNCHANGED <<pipelineVars, default_model, validateVars, gateVars, dbVars, supervisorVars, agentVars>>

\* lines 88-108: one turn of the loop over the fallbacks; past the last one,
\* the exception, which the retry decorator answers by calling generate
\* again until stop_after_attempt passes have failed
GwFallback(c) ==
    /\ gw[c].pc = "fallback"
    /\ IF gw[c].idx > Len(gw[c].fallback_order)
       THEN /\ gw' = [gw EXCEPT ![c] = [@ EXCEPT
                      !.pc = IF gw[c].pass < stop_after_attempt THEN "primary" ELSE "raised",
                      !.pass = IF gw[c].pass < stop_after_attempt THEN @ + 1 ELSE @]]
            /\ token_usage' = token_usage
       ELSE LET fallback == gw[c].fallback_order[gw[c].idx] IN
            \/ /\ MayReturn(fallback)
               /\ \E tokens \in TokenCounts(fallback) :
                   /\ gw' = [gw EXCEPT ![c] = [@ EXCEPT
                             !.pc = "returned",
                             !.attempts = Append(@, Attempt(fallback, TRUE, gw[c].pass)),
                             !.result = Some(FallbackResult(ProviderResult(fallback, tokens)))]]
                   /\ token_usage' = track_usage(token_usage, fallback, tokens)
            \/ /\ MayRaise(fallback)
               /\ gw' = [gw EXCEPT ![c] = [@ EXCEPT
                         !.attempts = Append(@, Attempt(fallback, FALSE, gw[c].pass)),
                         !.idx = @ + 1]]
               /\ token_usage' = token_usage
    /\ UNCHANGED <<pipelineVars, default_model, validateVars, gateVars, dbVars, supervisorVars, agentVars>>

generate(c) == GwCall(c) \/ GwPrimary(c) \/ GwFallback(c)

-----------------------------------------------------------------------------
(* What an agent gets from 'await ai_gateway.generate(...)': the call, which *)
(* SpecGateway follows step by step, is for the agents one step that ends in *)
(* an exception or in a dict whose "text" is a str, or None when the backend *)
(* sent no content.                                                          *)

GatewayRaised == [raised |-> TRUE, text |-> None]
GatewayText(t) == [raised |-> FALSE, text |-> Some(t)]
GatewayNoText == [raised |-> FALSE, text |-> None]

-----------------------------------------------------------------------------
(* agents/supervisor.py: SupervisorAgent.classify_intent *)

txtSQL_QUERY == <<"S", "Q", "L", "_", "Q", "U", "E", "R", "Y">>
txtSQL == <<"S", "Q", "L">>
txtDOCUMENTATION == <<"D", "O", "C", "U", "M", "E", "N", "T", "A", "T", "I", "O", "N">>
txtDOC == <<"D", "O", "C">>

\* the else branch answers "documentation"
classify_intent_default_doc(outcome) ==
    IF outcome.raised \/ outcome.text = None
    THEN "sql_query"
    ELSE LET response == upper(strip(outcome.text[1]))
         IN  IF Contains(response, txtSQL_QUERY) \/ Contains(response, txtSQL)
             THEN "sql_query"
             ELSE "documentation"

\* lines 45-69: the value classify_intent returns; an exception of the
\* awaited call, or of .strip() on a text that is None, is caught
classify_intent(outcome) ==
    IF outcome.raised \/ outcome.text = None
    THEN "sql_query"
    ELSE LET response == upper(strip(outcome.text[1]))
         IN  IF Contains(response, txtSQL_QUERY) \/ Contains(response, txtSQL)
             THEN "sql_query"
             ELSE IF Contains(response, txtDOCUMENTATION) \/ Contains(response, txtDOC)
             THEN "documentation"
             ELSE "sql_query"

\* the chunks of the texts a backend answers the classifier with
LabelAtoms == {
    txtSQL_QUERY, txtSQL, txtDOCUMENTATION, txtDOC,
    <<"s", "q", "l", "_", "q", "u", "e", "r", "y">>,
    <<"D", "o", "c", "u", "m", "e", "n", "t", "a", "t", "i", "o", "n">>,
    <<"d", "o", "c">>, <<"Q", "U", "E", "R", "Y">>,
    <<"S">>, <<"x">>, <<" ">>, <<"\n">> }

LabelTexts == Concats(LabelAtoms, MaxLabelAtoms)

SupervisorIdle ==
    /\ s_pc = "idle"
    /\ s_outcome = None
    /\ s_intent = None

\* lines 46-51: the awaited call of the gateway ends
ClassifyAwait ==
    /\ s_pc = "generate"
    /\ \E outcome \in {GatewayRaised, GatewayNoText} \cup {GatewayText(t) : t \in LabelTexts} :
        s_outcome' = Some(outcome)
    /\ s_pc' = "classify"
    /\ UNCHANGED <<pipelineVars, s_intent, validateVars, gateVars, dbVars, gatewayVars, agentVars>>

\* lines 53-69
ClassifyReturn ==
    /\ s_pc = "classify"
    /\ s_intent' = Some(classify_intent(s_outcome[1]))
    /\ s_pc' = "returned"
    /\ UNCHANGED <<pipelineVars, s_outcome, validateVars, gateVars, dbVars, gatewayVars, agentVars>>

-----------------------------------------------------------------------------
(* agents/sql_agent.py: SQLAgent *)

\* the backquote character, which no TLA+ string can hold
Backtick == "BACKQUOTE"

fenceSql == <<Backtick, Backtick, Backtick, "s", "q", "l", "\n">>
fenceOpen == <<Backtick, Backtick, Backtick, "\n">>
fenceClose == <<"\n", Backtick, Backtick, Backtick>>

Min(S) == CHOOSE x \in S : \A y \in S : x <= y

\* response.split('\n')
RECURSIVE split_lines(_)
split_lines(s) ==
    IF \A i \in 1..Len(s) : s[i] /= "\n" THEN <<s>>
    ELSE LET i == Min({k \in 1..Len(s) : s[k] = "\n"})
         IN  <<SubSeq(s, 1, i - 1)>> \o split_lines(SubSeq(s, i + 1, Len(s)))

\* '\n'.join(lines)
RECURSIVE join_lines(_)
join_lines(lines) ==
    IF lines = <<>> THEN <<>>
    ELSE IF Len(lines) = 1 THEN lines[1]
    ELSE lines[1] \o <<"\n">> \o join_lines(Tail(lines))

\* re.search(opener + r'(.*?)\nthe fence', response, re.DOTALL | re.IGNORECASE): the
\* group of the leftmost match, the shortest from there; 'word' is what the
\* group must begin with
SearchFenced(response, opener, word) ==
    LET closes(i) == {j \in (i + Len(opener) + Len(word))..Len(response) :
                         MatchAt(response, j, fenceClose)}
        starts == {i \in 1..Len(response) :
                      /\ MatchAtI(response, i, opener)
                      /\ MatchAtI(response, i + Len(opener), word)
                      /\ closes(i) /= {}}
    IN  IF starts = {} THEN None
        ELSE LET i == Min(starts)
             IN  Some(SubSeq(response, i + Len(opener), Min(closes(i)) - 1))

\* lines 180-199: from the first line that holds SELECT to the first line from
\* there on that ends with ';', or to the last line
ScanFromSelect(response) ==
    LET lines == split_lines(response)
        holds(n) == Contains(upper(lines[n]), kwSELECT)
        ends(n) == LET l == strip(lines[n]) IN l /= <<>> /\ l[Len(l)] = ";"
        first == Min({n \in 1..Len(lines) : holds(n)})
        stops == {n \in first..Len(lines) : ends(n)}
        last == IF stops = {} THEN Len(lines) ELSE Min(stops)
    IN  strip(join_lines(SubSeq(lines, first, last)))

\* the untagged block tried before the tagged one
extract_sql_untagged_first(response) ==
    LET tagged == SearchFenced(response, fenceSql, <<>>)
        untagged == SearchFenced(response, fenceOpen, kwSELECT)
    IN  IF untagged /= None THEN Some(strip(untagged[1]))
        ELSE IF tagged /= None THEN Some(strip(tagged[1]))
        ELSE IF Contains(upper(response), kwSELECT) THEN Some(ScanFromSelect(response))
        ELSE None

\* _extract_sql
extract_sql(response) ==
    LET tagged == SearchFenced(response, fenceSql, <<>>)
        untagged == SearchFenced(response, fenceOpen, kwSELECT)
    IN  IF tagged /= None THEN Some(strip(tagged[1]))
        ELSE IF untagged /= None THEN Some(strip(untagged[1]))
        ELSE IF Contains(upper(response), kwSELECT) THEN Some(ScanFromSelect(response))
        ELSE None

\* only the first operand of each 'or': the marker as it is spelled in the source
calculate_confidence_case_sensitive(response) ==
    IF Contains(response, <<"C", "o", "n", "f", "i", "d", "e", "n", "c", "e", ":", " ",
                            "H", "i", "g", "h">>)
    THEN 9
    ELSE IF Contains(response, <<"C", "o", "n", "f", "i", "d", "e", "n", "c", "e", ":", " ",
                                 "L", "o", "w">>)
    THEN 4
    ELSE 7

\* _calculate_confidence, in tenths: 0.9 is 9, 0.7 is 7, 0.4 is 4
calculate_confidence(response) ==
    LET has(marker) == Contains(response, marker) \/ Contains(lower(response), lower(marker))
    IN  IF has(<<"C", "o", "n", "f", "i", "d", "e", "n", "c", "e", ":", " ", "H", "i", "g", "h">>)
        THEN 9
        ELSE IF has(<<"C", "o", "n", "f", "i", "d", "e", "n", "c", "e", ":", " ",
                      "M", "e", "d", "i", "u", "m">>)
        THEN 7
        ELSE IF has(<<"C", "o", "n", "f", "i", "d", "e", "n", "c", "e", ":", " ", "L", "o", "w">>)
        THEN 4
        ELSE 7

\* 'if sql_query is None'
IsFalsy_none_only(opt) == opt = None

\* 'not sql_query': None or the empty string
IsFalsy(opt) == opt = None \/ opt[1] = <<>>

\* the dict generate_and_execute returns, without its explanation and its
\* ai_* entries; confidence_score is in tenths
AgentResponse(sql, confidence, results, error) ==
    [sql |-> sql, confidence_score |-> confidence, results |-> results, error |-> error]

\* the chunks of the texts a backend answers the SQL agent with
ResponseAtoms == {
    fenceSql, fenceOpen, fenceClose,
    <<"S", "E", "L", "E", "C", "T", " ", "1">>,
    <<"s", "e", "l", "e", "c", "t", " ", "2", ";">>,
    <<"D", "R", "O", "P", " ", "t">>,
    <<Backtick, Backtick, Backtick, "S", "Q", "L", "\n", "D", "E", "L", "E", "T", "E", "\n", Backtick, Backtick, Backtick>>,
    <<Backtick, Backtick, Backtick, "s", "q", "l", "\n", " ", "\n", Backtick, Backtick, Backtick>>,
    <<"\n">>, <<" ">>, <<"x">>,
    <<"C", "o", "n", "f", "i", "d", "e", "n", "c", "e", ":", " ", "H", "i", "g", "h">>,
    <<"c", "o", "n", "f", "i", "d", "e", "n", "c", "e", ":", " ", "l", "o", "w">>,
    <<"C", "O", "N", "F", "I", "D", "E", "N", "C", "E", ":", " ", "M", "e", "d", "i", "u", "m">> }

ResponseTexts == Concats(ResponseAtoms, MaxResponseAtoms)

AgentIdle ==
    /\ a_pc = "idle"
    /\ a_outcome = None
    /\ a_sql_query = None
    /\ a_confidence = 0
    /\ a_calls = <<>>
    /\ a_ret = None

\* the handler returns no error message
AgentError_no_message(e) == AgentResponse(None, 0, None, None)

\* lines 105-113: the handler of generate_and_execute
AgentError(e) == AgentResponse(None, 0, None, Some(e))

\* the execution failure is reported with confidence 0.0, as the other failures
ExecutionFailed_zero_confidence(sql_query, confidence, exec_error) ==
    AgentResponse(sql_query, 0, None, exec_error)

\* lines 84-91: the dict returned when execute_safe_query reports a failure
ExecutionFailed(sql_query, confidence, exec_error) ==
    AgentResponse(sql_query, confidence, None, exec_error)

\* the rejection keeps the confidence read from the response
SecurityRejected_keeps_confidence(sql_query, confidence, error_msg) ==
    AgentResponse(sql_query, confidence, None,
                  Some(<<"Security validation failed: ">> \o error_msg))

\* lines 70-76: the dict returned when validate_query rejects the SQL
SecurityRejected(sql_query, confidence, error_msg) ==
    AgentResponse(sql_query, 0, None,
                  Some(<<"Security validation failed: ">> \o error_msg))

\* line 46: build_context_for_query, which searches the metadata once per long
\* word of the question and may raise
AgentContext ==
    /\ a_pc = "context"
    /\ \/ /\ db_log' = db_log
          /\ a_pc' = "generate"
          /\ a_ret' = a_ret
       \/ \E raised \in BOOLEAN :
          /\ db_log' = Append(db_log, Statement("metadata query", <<>>, raised))
          /\ a_pc' = IF raised THEN "returned" ELSE "generate"
          /\ a_ret' = IF raised THEN Some(AgentError(ErrorOf("metadata query"))) ELSE a_ret
    /\ UNCHANGED <<pipelineVars, a_outcome, a_sql_query, a_confidence, a_calls, db_timeout,
                   validateVars, gateVars, gatewayVars, supervisorVars>>

\* line 50: the awaited call of the gateway ends
AgentAwait ==
    /\ a_pc = "generate"
    /\ \E outcome \in {GatewayRaised, GatewayNoText} \cup {GatewayText(t) : t \in ResponseTexts} :
        a_outcome' = Some(outcome)
    /\ a_pc' = "parse"
    /\ UNCHANGED <<pipelineVars, a_sql_query, a_confidence, a_calls, a_ret,
                   validateVars, gateVars, dbVars, gatewayVars, supervisorVars>>

\* lines 51-82: parse the response, return early without SQL or with SQL that
\* fails validate_query, else call execute_safe_query
AgentParse ==
    /\ a_pc = "parse"
    /\ IF a_outcome[1].raised
       THEN /\ a_ret' = Some(AgentError(<<"All AI providers failed. Last error: ">>))
            /\ a_pc' = "returned"
            /\ UNCHANGED <<a_sql_query, a_confidence, a_calls, gateVars>>
       ELSE IF a_outcome[1].text = None
       THEN /\ a_ret' = Some(AgentError(<<"expected string or bytes-like object">>))
            /\ a_pc' = "returned"
            /\ UNCHANGED <<a_sql_query, a_confidence, a_calls, gateVars>>
       ELSE LET sql_response == a_outcome[1].text[1]
                sql_query == extract_sql(sql_response)
                confidence == calculate_confidence(sql_response)
            IN  /\ a_sql_query' = sql_query
                /\ a_confidence' = confidence
                /\ IF IsFalsy(sql_query)
                   THEN /\ a_ret' = Some(AgentResponse(None, 0, None,
                                            Some(<<"SQL generation failed">>)))
                        /\ a_pc' = "returned"
                        /\ UNCHANGED <<a_calls, gateVars>>
                   ELSE LET v == validate_query(sql_query[1])
                        IN  IF ~v.is_valid
                            THEN /\ a_calls' = Append(a_calls, "validate_query")
                                 /\ a_ret' = Some(SecurityRejected(sql_query, confidence,
                                                                   v.reason[1]))
                                 /\ a_pc' = "returned"
                                 /\ UNCHANGED gateVars
                            ELSE /\ a_calls' = a_calls \o <<"validate_query", "execute_safe_query">>
                                 /\ a_ret' = a_ret
                                 /\ a_pc' = "execute"
                                 /\ g_pc' = "validate"
                                 /\ g_arg' = sql_query[1]
                                 /\ g_sql' = sql_query[1]
                                 /\ UNCHANGED <<g_results, g_exc, g_ret>>
    /\ UNCHANGED <<pipelineVars, a_outcome, validateVars, dbVars, gatewayVars, supervisorVars>>

\* lines 84-103: execute_safe_query has returned
AgentFinish ==
    /\ a_pc = "execute"
    /\ g_pc = "returned"
    /\ a_ret' = Some(IF ~g_ret[1].success
                     THEN ExecutionFailed(a_sql_query, a_confidence, g_ret[1].error)
                     ELSE AgentResponse(a_sql_query, a_confidence, g_ret[1].results, None))
    /\ a_pc' = "returned"
    /\ UNCHANGED <<pipelineVars, a_outcome, a_sql_query, a_confidence, a_calls,
                   validateVars, gateVars, dbVars, gatewayVars, supervisorVars>>

generate_and_execute ==
    \/ AgentContext
    \/ AgentAwait
    \/ AgentParse
    \/ execute_safe_query
    \/ AgentFinish

-----------------------------------------------------------------------------
(* agents/doc_agent.py: DocAgent.answer_documentation *)

\* the dict answer_documentation returns; sources is the number of its entries
DocResponse(answer, sources, error) ==
    [answer |-> answer, sources |-> sources, sql |-> None, results |-> None, error |-> error]

\* the handler leaves the answer null
DocError_null_answer(e) == DocResponse(None, 0, Some(e))

\* lines 48-56: the handler of answer_documentation
DocError(e) == DocResponse(Some(<<"Error generating answer: ">> \o e), 0, Some(e))

\* the texts a backend answers the documentation agent with
AnswerTexts == {<<>>, <<"x">>, <<"U", "S", "N", "C", " ", "i", "s", " ", "x">>}

DocIdle ==
    /\ d_pc = "idle"
    /\ d_outcome = None
    /\ d_ret = None

\* line 35: _build_doc_context, which searches the metadata once per long
\* word of the question and may raise
DocContext ==
    /\ d_pc = "context"
    /\ \/ /\ db_log' = db_log
          /\ d_pc' = "generate"
          /\ d_ret' = d_ret
       \/ \E raised \in BOOLEAN :
          /\ db_log' = Append(db_log, Statement("metadata query", <<>>, raised))
          /\ d_pc' = IF raised THEN "returned" ELSE "generate"
          /\ d_ret' = IF raised THEN Some(DocError(ErrorOf("metadata query"))) ELSE d_ret
    /\ UNCHANGED <<d_outcome, db_timeout, validateVars, gateVars, gatewayVars,
                   supervisorVars, agentVars, routeVars, validatorVars, callerVars>>

\* lines 38, 120-125: the awaited call of the gateway ends
DocAwait ==
    /\ d_pc = "generate"
    /\ \E outcome \in {GatewayRaised, GatewayNoText} \cup {GatewayText(t) : t \in AnswerTexts} :
        d_outcome' = Some(outcome)
    /\ d_pc' = "answer"
    /\ UNCHANGED <<d_ret, validateVars, gateVars, dbVars, gatewayVars,
                   supervisorVars, agentVars, routeVars, validatorVars, callerVars>>

\* lines 40-56, 127: the answer is the text of the result, whatever it is
DocReturn ==
    /\ d_pc = "answer"
    /\ d_ret' = Some(IF d_outcome[1].raised
                     THEN DocError(<<"All AI providers failed. Last error: ">>)
                     ELSE DocResponse(d_outcome[1].text, 3, None))
    /\ d_pc' = "returned"
    /\ UNCHANGED <<d_outcome, validateVars, gateVars, dbVars, gatewayVars,
                   supervisorVars, agentVars, routeVars, validatorVars, callerVars>>

answer_documentation == DocContext \/ DocAwait \/ DocReturn

-----------------------------------------------------------------------------
(* agents/supervisor.py: SupervisorAgent.route_query *)

\* the dict route_query returns: the response of the agent and agent_used
RouteResponse(agent_used, response) == [agent_used |-> agent_used, response |-> response]

RouteIdle ==
    /\ r_pc = "idle"
    /\ r_intent = None
    /\ r_ret = None

\* lines 83-96: classify_intent has returned, its locals are gone; the agent
\* of the intent is called
RouteDispatch ==
    /\ r_pc = "classify"
    /\ s_pc = "returned"
    /\ r_intent' = s_intent
    /\ s_pc' = "idle"
    /\ s_outcome' = None
    /\ s_intent' = None
    /\ IF s_intent[1] = "sql_query"
       THEN /\ r_pc' = "sql_agent"
            /\ a_pc' = "context"
            /\ d_pc' = d_pc
       ELSE /\ r_pc' = "doc_agent"
            /\ d_pc' = "context"
            /\ a_pc' = a_pc
    /\ UNCHANGED <<r_ret, a_outcome, a_sql_query, a_confidence, a_calls, a_ret,
                   d_outcome, d_ret, validateVars, gateVars, dbVars, gatewayVars,
                   validatorVars, callerVars>>

\* lines 89-98: the agent has returned; its dict gets agent_used
RouteReturn ==
    /\ \/ /\ r_pc = "sql_agent"
          /\ a_pc = "returned"
          /\ r_ret' = Some(RouteResponse("sql_agent", a_ret[1]))
       \/ /\ r_pc = "doc_agent"
          /\ d_pc = "returned"
          /\ r_ret' = Some(RouteResponse("doc_agent", d_ret[1]))
    /\ r_pc' = "returned"
    /\ UNCHANGED <<r_intent, validateVars, gateVars, dbVars, gatewayVars,
                   supervisorVars, agentVars, docVars, validatorVars, callerVars>>

route_query ==
    \/ ClassifyAwait
    \/ ClassifyReturn
    \/ RouteDispatch
    \/ generate_and_execute
    \/ answer_documentation
    \/ RouteReturn

-----------------------------------------------------------------------------
(* agents/validator.py: ValidatorAgent *)

\* a fraction num/den, for the scores the source computes as floats
Frac(num, den) == [num |-> num, den |-> den]

\* format(x, '.2f') of the float of the fraction q, in hundredths: the nearest
\* hundredth, and either neighbour when q lies halfway, where the binary
\* representation of the float decides
format_2f(q) ==
    LET lo == (100 * q.num) \div q.den
        rest == (100 * q.num) % q.den
    IN  IF 2 * rest < q.den THEN {lo}
        ELSE IF 2 * rest > q.den THEN {lo + 1}
        ELSE {lo, lo + 1}

\* the float left as it is
round2_identity(q) == {q}

\* round(x, 2): the same decimals, as a number
round2(q) == {Frac(h, 100) : h \in format_2f(q)}

\* set(s.split()): the maximal runs of s without white space
split_set(s) ==
    LET runs == {p \in (1..Len(s)) \X (1..Len(s)) :
                    /\ p[1] <= p[2]
                    /\ \A k \in p[1]..p[2] : s[k] \notin Whitespace
                    /\ (p[1] = 1 \/ s[p[1] - 1] \in Whitespace)
                    /\ (p[2] = Len(s) \/ s[p[2] + 1] \in Whitespace)}
    IN  {SubSeq(s, p[1], p[2]) : p \in runs}

\* a validation note: its text and the numbers formatted into it
Note(text, nums) == [text |-> text, nums |-> nums]

\* the dict ValidatorAgent.validate_query returns; trust_score in hundredths
TrustResult(trust_score, matched_golden, validation_notes) ==
    [trust_score |-> trust_score, matched_golden |-> matched_golden,
     validation_notes |-> validation_notes]

\* the first golden query that shares at least two words with the question
find_matching_golden_query_two_words(queries, user_question) ==
    LET golden_queries_ == SelectSeq(queries, LAMBDA gq : gq.is_active)
        user_terms == split_set(lower(user_question))
        overlap(gq) == Cardinality(user_terms \cap split_set(lower(gq.question)))
        hits == {i \in 1..Len(golden_queries_) : overlap(golden_queries_[i]) >= 2}
    IN  IF hits = {} THEN None ELSE Some(golden_queries_[Min(hits)])

\* the golden queries taken whether active or not
find_matching_golden_query_any_status(queries, user_question) ==
    LET user_terms == split_set(lower(user_question))
        overlap(gq) == Cardinality(user_terms \cap split_set(lower(gq.question)))
        hits == {i \in 1..Len(queries) : overlap(queries[i]) >= 3}
    IN  IF hits = {} THEN None ELSE Some(queries[Min(hits)])

\* _find_matching_golden_query on the rows of the table: those with
\* is_active (lines 98-101), then the first that shares at least three words
\* with the question (lines 103-118)
find_matching_golden_query(queries, user_question) ==
    LET golden_queries_ == SelectSeq(queries, LAMBDA gq : gq.is_active)
        user_terms == split_set(lower(user_question))
        overlap(gq) == Cardinality(user_terms \cap split_set(lower(gq.question)))
        hits == {i \in 1..Len(golden_queries_) : overlap(golden_queries_[i]) >= 3}
    IN  IF hits = {} THEN None ELSE Some(golden_queries_[Min(hits)])

\* _compare_rows: the share of the keys whose values are both present, both
\* not NULL, and equal
compare_rows(row1, row2) ==
    LET all_keys == DOMAIN row1 \cup DOMAIN row2
        matching == {key \in DOMAIN row1 \cap DOMAIN row2 :
                        /\ row1[key] /= None
                        /\ row2[key] /= None
                        /\ row1[key][1] = row2[key][1]}
    IN  IF all_keys = {} THEN Frac(1, 1) ELSE Frac(Cardinality(matching), Cardinality(all_keys))

\* _compare_results: the pairs (score, notes) it may return, one for each way
\* the first row similarity may be formatted
compare_results(results1, results2) ==
    IF results1 = <<>> /\ results2 = <<>>
    THEN {[score |-> Frac(1, 1),
           notes |-> <<Note(<<"Both queries returned empty results">>, <<>>)>>]}
    ELSE IF results1 = <<>> \/ results2 = <<>>
    THEN {[score |-> Frac(3, 10),
           notes |-> <<Note(<<"One query returned empty results">>, <<>>)>>]}
    ELSE LET same == Len(results1) = Len(results2)
             first == compare_rows(results1[1], results2[1])
             \* row_score * 0.4 + first_row_similarity * 0.6, row_score 1.0 or 0.5
             score == Frac((IF same THEN 2 ELSE 1) * first.den + 3 * first.num, 5 * first.den)
             count_note == IF same
                           THEN Note(<<"Row counts match: ">>, <<Len(results1)>>)
                           ELSE Note(<<"Row count mismatch: ", " vs ">>,
                                     <<Len(results1), Len(results2)>>)
         IN  {[score |-> score,
               notes |-> <<count_note, Note(<<"First row similarity: ">>, <<shown>>)>>] :
                  shown \in format_2f(first)}

\* lines 191-198: normalize
normalize(sql) == rstripChars(upper(CollapseWhitespace(strip(sql))), {";"})

\* _calculate_sql_similarity: the Jaccard index of the two sets of words
calculate_sql_similarity(sql1, sql2) ==
    LET words1 == split_set(normalize(sql1))
        words2 == split_set(normalize(sql2))
    IN  IF words1 = {} /\ words2 = {} THEN Frac(1, 1)
        ELSE Frac(Cardinality(words1 \cap words2), Cardinality(words1 \cup words2))

ValidatorIdle ==
    /\ va_pc = "idle"
    /\ va_question = <<>>
    /\ va_generated_sql = <<>>
    /\ va_results = <<>>
    /\ golden_queries = <<>>
    /\ va_golden = None
    /\ va_ret = None

\* the largest number of words of a question
MaxQuestionWords == 3

\* the largest number of active golden queries
MaxGolden == 2

wSum == <<"s", "u", "m">>
wBy == <<"B", "Y">>
wDay == <<"d", "a", "y">>
QuestionWords == {wSum, wBy, wDay}

RECURSIVE QuestionsOf(_)
QuestionsOf(n) ==
    IF n = 0 THEN {<<>>}
    ELSE LET shorter == QuestionsOf(n - 1)
         IN  shorter \cup {IF q = <<>> THEN w ELSE q \o <<" ">> \o w :
                              q \in shorter, w \in QuestionWords}

\* and one question of four words
Questions ==
    QuestionsOf(MaxQuestionWords) \cup {wSum \o <<" ">> \o wBy \o <<" ">> \o wDay \o <<" ", "x">>}

sqlSelectFromT == kwSELECT \o <<" ", "1", " ", "F", "R", "O", "M", " ", "t">>

\* rows of the table golden_queries (models.py 329-345): one whose SQL is a
\* SELECT, one whose SQL is no SELECT, one whose question has two words, one
\* that is not active
GoldenQuery(question, sql_query, is_active) ==
    [question |-> question, sql_query |-> sql_query, is_active |-> is_active]
GoldenRows == {
    GoldenQuery(<<"S", "u", "m", " ", "b", "y", " ", "d", "a", "y">>, sqlSelectFromT, TRUE),
    GoldenQuery(<<"d", "a", "y", " ", " ", "s", "u", "m", "\n", "b", "y", " ", "x">>, kwDELETE, TRUE),
    GoldenQuery(<<"b", "y", " ", "d", "a", "y">>, kwSELECT \o <<" ", "1">>, TRUE),
    GoldenQuery(<<"s", "u", "m", " ", "b", "y", " ", "d", "a", "y">>, kwSELECT \o <<" ", "2">>, FALSE) }

RECURSIVE Corpora(_)
Corpora(n) ==
    IF n = 0 THEN {<<>>}
    ELSE LET shorter == Corpora(n - 1)
         IN  shorter \cup {Append(c, g) : c \in shorter, g \in GoldenRows}

GeneratedSql == {
    sqlSelectFromT,
    <<"s", "e", "l", "e", "c", "t", " ", "1", " ", " ", "f", "r", "o", "m", " ", "t", ";">>,
    kwSELECT \o <<" ", "1">>,
    kwSELECT \o <<" ", "2">>,
    kwSELECT }

GeneratedResults ==
    {RowsToDicts(DbColumns, rows) : rows \in DbRowSets} \cup
    {RowsToDicts(<<"j">>, <<<<Some(1)>>>>), RowsToDicts(<<"k", "j">>, <<<<Some(1), Some(1)>>>>)}

\* the handler with a trust of zero
ValidationError_zero_trust(e) ==
    TrustResult(Frac(0, 10), None, <<Note(<<"Validation error: ">> \o e, <<>>)>>)

\* lines 80-86: the handler of validate_query
ValidationError(e) ==
    TrustResult(Frac(5, 10), None, <<Note(<<"Validation error: ">> \o e, <<>>)>>)

\* lines 40-53: fetch the active golden queries of the table, find the one that matches,
\* return when there is none, else hand its SQL to execute_safe_query
ValidatorFind ==
    /\ va_pc = "find"
    /\ \E raised \in BOOLEAN :
        /\ db_log' = Append(db_log, Statement("golden queries", <<>>, raised))
        /\ LET golden_query == find_matching_golden_query(golden_queries, va_question)
           IN  IF raised
               THEN /\ va_ret' = Some(ValidationError(ErrorOf("golden queries")))
                    /\ va_pc' = "returned"
                    /\ UNCHANGED <<va_golden, g_pc, g_arg, g_sql>>
               ELSE IF golden_query = None
               THEN /\ va_ret' = Some(TrustResult(Frac(6, 10), None,
                            <<Note(<<"No matching golden query found for comparison">>, <<>>)>>))
                    /\ va_pc' = "returned"
                    /\ UNCHANGED <<va_golden, g_pc, g_arg, g_sql>>
               ELSE /\ va_golden' = golden_query
                    /\ va_pc' = "execute"
                    /\ g_pc' = "validate"
                    /\ g_arg' = golden_query[1].sql_query
                    /\ g_sql' = golden_query[1].sql_query
                    /\ va_ret' = va_ret
    /\ UNCHANGED <<va_question, va_generated_sql, va_results, golden_queries, docVars, routeVars,
                   g_results, g_exc, g_ret, db_timeout, validateVars, gatewayVars,
                   supervisorVars, agentVars, callerVars>>

\* only the note of the SQL similarity
MatchNotes_similarity_only(question, shown) == <<Note(<<"SQL similarity: ">>, <<shown>>)>>

\* lines 71-72: the two notes appended after the comparison
MatchNotes(question, shown) ==
    <<Note(<<"Golden query match: ">> \o question, <<>>),
      Note(<<"SQL similarity: ">>, <<shown>>)>>

\* lines 55-78: what execute_safe_query returned: its error, or the comparison
\* of the rows and of the two SQL texts
ValidatorCompare ==
    /\ va_pc = "execute"
    /\ g_pc = "returned"
    /\ LET golden_query == va_golden[1]
           sql_similarity == calculate_sql_similarity(va_generated_sql, golden_query.sql_query)
       IN  IF ~g_ret[1].success
           THEN va_ret' = Some(TrustResult(Frac(5, 10), Some(golden_query.question),
                    <<Note(<<"Could not execute golden query: ">> \o g_ret[1].error[1], <<>>)>>))
           ELSE \E compared \in compare_results(va_results, g_ret[1].results[1]),
                   shown \in format_2f(sql_similarity) :
                    LET trust_score == compared.score
                        \* (trust_score * 0.7) + (sql_similarity * 0.3)
                        final_trust ==
                            Frac(7 * trust_score.num * sql_similarity.den
                                    + 3 * sql_similarity.num * trust_score.den,
                                 10 * trust_score.den * sql_similarity.den)
                    IN  \E rounded \in round2(final_trust) :
                            va_ret' = Some(TrustResult(rounded, Some(golden_query.question),
                                compared.notes \o MatchNotes(golden_query.question, shown)))
    /\ va_pc' = "returned"
    /\ UNCHANGED <<va_question, va_generated_sql, va_results, golden_queries, va_golden,
                   docVars, routeVars, gateVars, dbVars, validateVars, gatewayVars,
                   supervisorVars, agentVars, callerVars>>

ValidatorAgent_validate_query ==
    \/ ValidatorFind
    \/ execute_safe_query
    \/ ValidatorCompare

-----------------------------------------------------------------------------
(* security.py: RateLimiter *)

\* the parameters of RateLimiter.__init__ (30 and 60 by default), kept small
max_requests == 2
window_seconds == 3

\* the caller identifiers, the largest value of the clock, the largest number
\* of calls of is_allowed
Identifiers == {"10.0.0.1", "10.0.0.2"}
MaxClock == 5
MaxCalls == 5

RateAnswer(allowed, requests) == [allowed |-> allowed, requests |-> requests]

\* a call answered False is recorded as well
is_allowed_records_denied(requests, identifier, current_time) ==
    LET known == IF identifier \in DOMAIN requests THEN requests
                 ELSE requests @@ (identifier :> <<>>)
        kept == SelectSeq(known[identifier], LAMBDA ts : current_time - ts < window_seconds)
    IN  RateAnswer(Len(kept) < max_requests,
                   [known EXCEPT ![identifier] = Append(kept, current_time)])

\* the old requests are dropped when no younger than the window
is_allowed_window_closed(requests, identifier, current_time) ==
    LET known == IF identifier \in DOMAIN requests THEN requests
                 ELSE requests @@ (identifier :> <<>>)
        kept == SelectSeq(known[identifier], LAMBDA ts : current_time - ts <= window_seconds)
    IN  IF Len(kept) >= max_requests
        THEN RateAnswer(FALSE, [known EXCEPT ![identifier] = kept])
        ELSE RateAnswer(TRUE, [known EXCEPT ![identifier] = Append(kept, current_time)])

\* RateLimiter.is_allowed at clock value current_time: the answer and the new
\* value of _requests
is_allowed(requests, identifier, current_time) ==
    LET known == IF identifier \in DOMAIN requests THEN requests
                 ELSE requests @@ (identifier :> <<>>)
        kept == SelectSeq(known[identifier], LAMBDA ts : current_time - ts < window_seconds)
    IN  IF Len(kept) >= max_requests
        THEN RateAnswer(FALSE, [known EXCEPT ![identifier] = kept])
        ELSE RateAnswer(TRUE, [known EXCEPT ![identifier] = Append(kept, current_time)])

RateCallRecord(identifier, time, allowed) ==
    [identifier |-> identifier, time |-> time, allowed |-> allowed]

RateIdle ==
    /\ rl_requests = <<>>
    /\ rl_now = 0
    /\ rl_log = <<>>

\* one call of is_allowed, after the clock went on by some amount or by none
RateCall ==
    /\ Len(rl_log) < MaxCalls
    /\ \E identifier \in Identifiers, elapsed \in 0..window_seconds :
        /\ rl_now + elapsed <= MaxClock
        /\ LET answer == is_allowed(rl_requests, identifier, rl_now + elapsed)
           IN  /\ rl_now' = rl_now + elapsed
               /\ rl_requests' = answer.requests
               /\ rl_log' = Append(rl_log, RateCallRecord(identifier, rl_now + elapsed,
                                                         answer.allowed))
    /\ UNCHANGED <<chatVars, docVars, routeVars, validatorVars, validateVars, gateVars, dbVars,
                   gatewayVars, supervisorVars, agentVars>>

-----------------------------------------------------------------------------
(* main.py: the endpoint chat *)

\* req.client.host of the request
ChatClient == "10.0.0.1"

\* request.question: one that shares three words with a golden query, one
\* that does not
ChatQuestions == {wSum \o <<" ">> \o wBy \o <<" ">> \o wDay, wSum}

\* the largest number of rows of the table golden_queries during a request
MaxChatGolden == 1

\* the fields of ChatResponse the claims speak of
ChatResponse(agent_used, sql, results, trust_score, validation_notes, error) ==
    [agent_used |-> agent_used, sql |-> sql, results |-> results, trust_score |-> trust_score,
     validation_notes |-> validation_notes, error |-> error]

ChatIdle ==
    /\ c_pc = "idle"
    /\ c_validator_calls = 0
    /\ c_trust_score = None
    /\ c_ret = None

\* the validator is called for every response of the SQL agent that has SQL
ShouldValidate_sql_only(response) ==
    /\ response.agent_used = "sql_agent"
    /\ ~IsFalsy(response.response.sql)

\* lines 152-153: the two ifs before the call of validate_query
ShouldValidate(response) ==
    /\ response.agent_used = "sql_agent"
    /\ ~IsFalsy(response.response.sql)
    /\ response.response.results /= None
    /\ response.response.error = None

\* lines 140-150: rate limiting, HTTP 429 when refused; else route_query is
\* called
ChatAdmit ==
    /\ c_pc = "rate_limit"
    /\ LET answer == is_allowed(rl_requests, ChatClient, rl_now)
       IN  /\ rl_requests' = answer.requests
           /\ rl_log' = Append(rl_log, RateCallRecord(ChatClient, rl_now, answer.allowed))
           /\ IF answer.allowed
              THEN /\ c_pc' = "route"
                   /\ r_pc' = "classify"
                   /\ s_pc' = "generate"
              ELSE /\ c_pc' = "refused"
                   /\ r_pc' = r_pc
                   /\ s_pc' = s_pc
    /\ UNCHANGED <<c_validator_calls, c_trust_score, c_ret, rl_now, r_intent, r_ret, s_outcome,
                   s_intent, docVars, validatorVars, validateVars, gateVars, dbVars,
                   gatewayVars, agentVars>>

\* lines 149-161: route_query has returned; validate_query is called when the
\* two ifs allow it, with the question of the request, on the rows the table
\* golden_queries holds at that time
ChatValidate ==
    /\ c_pc = "route"
    /\ r_pc = "returned"
    /\ LET response == r_ret[1]
       IN  IF ShouldValidate(response)
           THEN /\ c_pc' = "validate"
                /\ c_validator_calls' = c_validator_calls + 1
                /\ va_pc' = "find"
                /\ va_question' \in ChatQuestions
                /\ va_generated_sql' = response.response.sql[1]
                /\ va_results' = IF response.response.results = None THEN <<>>
                                 ELSE response.response.results[1]
                /\ golden_queries' \in Corpora(MaxChatGolden)
           ELSE /\ c_pc' = "history"
                /\ UNCHANGED <<c_validator_calls, va_pc, va_question, va_generated_sql,
                               va_results, golden_queries>>
    /\ UNCHANGED <<c_trust_score, c_ret, va_golden, va_ret, rateVars, docVars, routeVars,
                   validateVars, gateVars, dbVars, gatewayVars, supervisorVars, agentVars>>

\* lines 162-163: validate_query has returned
ChatValidated ==
    /\ c_pc = "validate"
    /\ va_pc = "returned"
    /\ c_trust_score' = Some(va_ret[1].trust_score)
    /\ c_pc' = "history"
    /\ UNCHANGED <<c_validator_calls, c_ret, rateVars, docVars, routeVars, validatorVars,
                   validateVars, gateVars, dbVars, gatewayVars, supervisorVars, agentVars>>

\* lines 165-209: the history row is committed and the ChatResponse built; an
\* exception of the commit gives the ChatResponse of the handler
ChatRespond ==
    /\ c_pc = "history"
    /\ \E raised \in BOOLEAN :
        /\ db_log' = Append(db_log, Statement("history", <<>>, raised))
        /\ LET response == r_ret[1]
           IN  c_ret' = IF raised
                        THEN Some(ChatResponse("error", None, None, None, None,
                                               Some(ErrorOf("history"))))
                        ELSE Some(ChatResponse(response.agent_used, response.response.sql,
                                    response.response.results, c_trust_score,
                                    IF c_trust_score = None THEN None
                                    ELSE Some(va_ret[1].validation_notes),
                                    response.response.error))
    /\ c_pc' = "responded"
    /\ UNCHANGED <<c_validator_calls, c_trust_score, rateVars, docVars, routeVars, validatorVars,
                   validateVars, gateVars, db_timeout, gatewayVars, supervisorVars, agentVars>>

chat ==
    \/ ChatAdmit
    \/ route_query
    \/ ChatValidate
    \/ ValidatorAgent_validate_query
    \/ ChatValidated
    \/ ChatRespond

PipelineIdle == DocIdle /\ RouteIdle /\ ValidatorIdle /\ ChatIdle /\ RateIdle

-----------------------------------------------------------------------------
(* Specifications *)

\* validate_query and sanitize_query applied to every input string
InitValidate ==
    /\ PipelineIdle
    /\ v_pc = "call"
    /\ v_sql \in SqlInputs
    /\ v_verdict = None
    /\ v_sanitized = None
    /\ GateIdle
    /\ DbIdle
    /\ GatewayIdle
    /\ SupervisorIdle
    /\ AgentIdle

NextValidate == ValidateCall \/ SanitizeCall

SpecValidate == InitValidate /\ [][NextValidate]_vars

\* execute_safe_query called with every input string on a fresh session
InitGate ==
    /\ PipelineIdle
    /\ ValidateIdle
    /\ g_pc = "validate"
    /\ g_arg \in GateSqlInputs
    /\ g_sql = g_arg
    /\ g_results = None
    /\ g_exc = None
    /\ g_ret = None
    /\ DbIdle
    /\ GatewayIdle
    /\ SupervisorIdle
    /\ AgentIdle

NextGate == execute_safe_query

SpecGate == InitGate /\ [][NextGate]_vars

\* MaxCoroutines coroutines call generate on the one gateway, for every
\* DEFAULT_AI_MODEL
InitGateway ==
    /\ PipelineIdle
    /\ ValidateIdle
    /\ GateIdle
    /\ DbIdle
    /\ default_model \in DefaultModels
    /\ token_usage = [total_requests |-> 0, total_tokens |-> 0, by_provider |-> <<>>]
    /\ gw = [c \in Coroutines |-> GwIdleState]
    /\ SupervisorIdle
    /\ AgentIdle

NextGateway == \E c \in Coroutines : generate(c)

SpecGateway == InitGateway /\ [][NextGateway]_vars

\* the same calls, each awaited call ending and each coroutine being resumed
\* by the event loop
SpecGatewayFair ==
    InitGateway /\ [][NextGateway]_vars /\ \A c \in Coroutines : WF_vars(generate(c))

\* classify_intent called for every answer of the gateway
InitClassify ==
    /\ PipelineIdle
    /\ ValidateIdle
    /\ GateIdle
    /\ DbIdle
    /\ GatewayIdle
    /\ AgentIdle
    /\ s_pc = "generate"
    /\ s_outcome = None
    /\ s_intent = None

NextClassify == ClassifyAwait \/ ClassifyReturn

SpecClassify == InitClassify /\ [][NextClassify]_vars

\* generate_and_execute called on a fresh session, for every answer of the
\* gateway
InitAgent ==
    /\ PipelineIdle
    /\ ValidateIdle
    /\ GateIdle
    /\ DbIdle
    /\ GatewayIdle
    /\ SupervisorIdle
    /\ a_pc = "context"
    /\ a_outcome = None
    /\ a_sql_query = None
    /\ a_confidence = 0
    /\ a_calls = <<>>
    /\ a_ret = None

NextAgent == generate_and_execute

SpecAgent == InitAgent /\ [][NextAgent]_vars

\* route_query called on a fresh session, for every answer of the gateway to
\* the classifier and to the agent
InitRoute ==
    /\ ValidateIdle
    /\ GateIdle
    /\ DbIdle
    /\ GatewayIdle
    /\ AgentIdle
    /\ DocIdle
    /\ ValidatorIdle
    /\ ChatIdle
    /\ RateIdle
    /\ s_pc = "generate"
    /\ s_outcome = None
    /\ s_intent = None
    /\ r_pc = "classify"
    /\ r_intent = None
    /\ r_ret = None

NextRoute == route_query

SpecRoute == InitRoute /\ [][NextRoute]_vars

\* validate_query called on a fresh session, for every question, generated
\* SQL, generated rows and list of active golden queries
InitTrust ==
    /\ ValidateIdle
    /\ GateIdle
    /\ DbIdle
    /\ GatewayIdle
    /\ SupervisorIdle
    /\ AgentIdle
    /\ DocIdle
    /\ RouteIdle
    /\ ChatIdle
    /\ RateIdle
    /\ va_pc = "find"
    /\ va_question \in Questions
    /\ va_generated_sql \in GeneratedSql
    /\ va_results \in GeneratedResults
    /\ golden_queries \in Corpora(MaxGolden)
    /\ va_golden = None
    /\ va_ret = None

NextTrust == ValidatorAgent_validate_query

SpecTrust == InitTrust /\ [][NextTrust]_vars

\* calls of is_allowed on a fresh RateLimiter, for both identifiers, the
\* clock standing or going on between them
InitRate ==
    /\ ValidateIdle
    /\ GateIdle
    /\ DbIdle
    /\ GatewayIdle
    /\ SupervisorIdle
    /\ AgentIdle
    /\ DocIdle
    /\ RouteIdle
    /\ ValidatorIdle
    /\ ChatIdle
    /\ RateIdle

NextRate == RateCall

SpecRate == InitRate /\ [][NextRate]_vars

\* one request to chat, the limiter fresh or full for the client
InitChat ==
    /\ ValidateIdle
    /\ GateIdle
    /\ DbIdle
    /\ GatewayIdle
    /\ SupervisorIdle
    /\ AgentIdle
    /\ DocIdle
    /\ RouteIdle
    /\ ValidatorIdle
    /\ c_pc = "rate_limit"
    /\ c_validator_calls = 0
    /\ c_trust_score = None
    /\ c_ret = None
    /\ rl_requests \in {<<>>, (ChatClient :> [i \in 1..max_requests |-> 0])}
    /\ rl_now = 0
    /\ rl_log = <<>>

NextChat == chat

SpecChat == InitChat /\ [][NextChat]_vars

-----------------------------------------------------------------------------
(* What the claims speak of, stated apart from the definitions above *)

ClaimBlockedWords == {kwDROP, kwDELETE, kwTRUNCATE, kwUPDATE, kwINSERT, kwALTER,
                      kwCREATE, kwGRANT, kwREVOKE, kwEXEC, kwEXECUTE}

\* kw occurs in s in any letter casing with no letter, digit or underscore
\* next to it on either side
OccursAsWholeWord(s, kw) ==
    \E i \in 1..Len(s) :
        /\ MatchAtI(s, i, kw)
        /\ (i = 1 \/ s[i - 1] \notin WordChars)
        /\ (i + Len(kw) > Len(s) \/ s[i + Len(kw)] \notin WordChars)

HasBlockedWord(s) == \E kw \in ClaimBlockedWords : OccursAsWholeWord(s, kw)

\* s begins, after optional whitespace, with the word SELECT in any casing
BeginsWithSelect(s) ==
    \E i \in 1..Len(s) :
        /\ \A k \in 1..(i - 1) : s[k] \in Whitespace
        /\ MatchAtI(s, i, kwSELECT)
        /\ (i + Len(kwSELECT) > Len(s) \/ s[i + Len(kwSELECT)] \notin WordChars)

SemicolonCount(s) == Cardinality({i \in 1..Len(s) : s[i] = ";"})

\* a ';' is followed on its line by DROP, DELETE or UPDATE in any casing,
\* as a word or inside a longer word
SemicolonThenKeyword(s) ==
    \E i \in 1..Len(s) : \E j \in (i + 1)..Len(s) : \E kw \in {kwDROP, kwDELETE, kwUPDATE} :
        /\ s[i] = ";"
        /\ MatchAtI(s, j, kw)
        /\ \A k \in (i + 1)..(j - 1) : s[k] /= "\n"

\* a ';' of the text is followed by something other than whitespace and ';'
HasStatementAfterSeparator(t) ==
    \E i \in 1..Len(t) : \E j \in (i + 1)..Len(t) :
        t[i] = ";" /\ t[j] \notin (Whitespace \cup {";"})

Validated == v_pc \in {"validated", "sanitized"}
GateReturned == g_pc = "returned"
\* the statements execute_safe_query gave the session
GateLog == SelectSeq(db_log, LAMBDA st : st.kind /= "metadata query")
\* the call went past validation: it gave the session at least one statement
GatePassedValidation == GateLog /= <<>>
LastStatement == GateLog[Len(GateLog)]
SentBefore(kind1, kind2) ==
    \E i \in 1..Len(GateLog) : \E j \in (i + 1)..Len(GateLog) :
        GateLog[i].kind = kind1 /\ GateLog[j].kind = kind2

-----------------------------------------------------------------------------
(* Claims *)

\* C1: every SQL string in which one of the eleven blocked keywords occurs as
\* a whole word, in any casing and at any position, is answered invalid with
\* a non-null reason by validate_query.
C1_BlockedKeywordRejected ==
    (Validated /\ HasBlockedWord(v_sql)) =>
        (~v_verdict[1].is_valid /\ v_verdict[1].reason /= None)

\* a mixed-case Drop after a leading SELECT has been rejected
C1_Witness ==
    /\ v_pc = "validated"
    /\ v_sql = kwSELECT \o <<" ">> \o <<"D", "r", "o", "p">>
    /\ ~v_verdict[1].is_valid
    /\ v_verdict[1].reason = Some(<<"Blocked keyword detected: ", "\\bDROP\\b">>)

\* C3 (as claimed): no text that execute_safe_query hands to db.execute holds a
\* statement separator followed by further statement text.
C3_NoStackedStatementExecuted ==
    \A i \in 1..Len(GateLog) :
        GateLog[i].kind = "query" => ~HasStatementAfterSeparator(GateLog[i].text)

\* C4 (as claimed): on every return of execute_safe_query for a SQL that passed
\* validation, no statement timeout is in effect on the session.
C4_TimeoutNeverLeaks ==
    (GateReturned /\ GatePassedValidation) => ~db_timeout

\* C4 (amended): on every return of execute_safe_query for a SQL that passed
\* validation, a RESET statement_timeout was sent after the SET and is the
\* last statement sent; the timeout is still in effect exactly when the SET
\* succeeded and that last RESET, sent by the failure handler, raised.
C4_ResetAlwaysSent ==
    (GateReturned /\ GatePassedValidation) =>
        /\ SentBefore("SET statement_timeout", "RESET statement_timeout")
        /\ LastStatement.kind = "RESET statement_timeout"
        /\ db_timeout <=> (~GateLog[1].raised /\ LastStatement.raised)
        /\ LastStatement.raised => ~g_ret[1].success

\* the statement raised, the handler's RESET went through, no timeout is left
C4_Witness ==
    /\ GateReturned
    /\ Len(GateLog) = 3
    /\ GateLog[2].kind = "query" /\ GateLog[2].raised
    /\ ~GateLog[3].raised
    /\ ~db_timeout

\* C5 (as claimed): every string that begins with SELECT after optional
\* whitespace, has at most one ';' and holds no blocked keyword as a whole
\* word is answered valid by validate_query.
C5_SingleSelectValid ==
    (/\ Validated
     /\ BeginsWithSelect(v_sql)
     /\ SemicolonCount(v_sql) <= 1
     /\ ~HasBlockedWord(v_sql)) =>
        v_verdict[1] = Verdict(TRUE, None)

\* C5 (amended): such a string is answered valid provided also that no ';'
\* of it is followed on the same line by DROP, DELETE or UPDATE (even inside
\* a longer word) and that it holds at most two '--'.
C5_SingleSelectValidAmended ==
    (/\ Validated
     /\ BeginsWithSelect(v_sql)
     /\ SemicolonCount(v_sql) <= 1
     /\ ~HasBlockedWord(v_sql)
     /\ ~SemicolonThenKeyword(v_sql)
     /\ count(v_sql, <<"-", "-">>) <= 2) =>
        v_verdict[1] = Verdict(TRUE, None)

\* a SELECT after leading whitespace, with one ';', has been answered valid
C5_Witness ==
    /\ v_pc = "validated"
    /\ v_sql = <<"\n">> \o <<"S", "E", "L", "E", "C", "T", " ", "1">> \o <<";">>
    /\ v_verdict[1] = Verdict(TRUE, None)

\* C6: execute_safe_query never raises, every step it has not returned from
\* can be taken, and what it returns is (True, rows, None) or
\* (False, None, message): a failure carries no rows and a non-null message.
C6_GateResultShape ==
    /\ g_pc \in {"idle", "validate", "set_timeout", "execute", "fetch", "reset",
                 "except", "returned"}
    /\ g_pc \notin {"idle", "returned"} => ENABLED execute_safe_query
    /\ GateReturned =>
        /\ g_ret /= None
        /\ \/ g_ret[1].success /\ g_ret[1].results /= None /\ g_ret[1].error = None
           \/ ~g_ret[1].success /\ g_ret[1].results = None /\ g_ret[1].error /= None
    /\ (GateReturned /\ \E i \in 1..Len(GateLog) : GateLog[i].raised) =>
        ~g_ret[1].success
    /\ (GateReturned /\ ~GatePassedValidation) => ~g_ret[1].success

\* the rows were fetched, the first RESET raised and so did the handler's:
\* the call still returned (False, None, message)
C6_Witness ==
    /\ GateReturned
    /\ Len(GateLog) = 4
    /\ GateLog[3].raised /\ GateLog[4].raised
    /\ g_results /= None
    /\ g_ret[1] = GateResult(FALSE, None, Some(ErrorOf("RESET statement_timeout")))

\* the attempts of coroutine c's call in its current pass of generate
PassAttempts(c) == SelectSeq(gw[c].attempts, LAMBDA a : a.pass = gw[c].pass)

\* the backends of a pass with primary p: p, then GROQ, OPENAI, GEMINI, LOCAL
ClaimChainSet(p) == {p} \cup {"groq", "openai", "gemini", "local"}

\* C7: generate raises only when the primary and every backend of the
\* fallback chain failed in the pass; when it returns, the result is that of
\* the one backend that succeeded, every backend tried before it failed, and
\* nothing is tried after a success.
C7_RaisesOnlyWhenAllFailed ==
    \A c \in Coroutines :
        LET tried == PassAttempts(c) IN
        /\ gw[c].pc = "raised" =>
              \A p \in ClaimChainSet(gw[c].model) :
                  \E i \in 1..Len(tried) : tried[i].provider = p /\ ~tried[i].ok
        /\ gw[c].pc = "returned" =>
              /\ tried /= <<>>
              /\ tried[Len(tried)].ok
              /\ gw[c].result /= None
              /\ gw[c].result[1].provider = tried[Len(tried)].provider
              /\ \A i \in 1..(Len(tried) - 1) : ~tried[i].ok
        /\ (\E i \in 1..Len(tried) : tried[i].ok) => gw[c].pc = "returned"

\* the primary and two fallbacks failed, the third fallback answered
C7_Witness ==
    \E c \in Coroutines :
        /\ gw[c].pc = "returned"
        /\ Len(gw[c].attempts) = 4
        /\ gw[c].model = "openai"
        /\ gw[c].result[1].provider = "local"

\* C8: in every result generate returns, fallback_used is true if and only if
\* the primary backend failed in the call and another backend produced the
\* result.
C8_FallbackUsedIff ==
    \A c \in Coroutines :
        gw[c].pc = "returned" =>
            (gw[c].result[1].fallback_used <=>
                /\ ~PassAttempts(c)[1].ok
                /\ PassAttempts(c)[1].provider = gw[c].model
                /\ gw[c].result[1].provider /= gw[c].model)

\* one call answered by its primary, one by a fallback after an unknown primary
C8_Witness ==
    \E c, d \in Coroutines :
        /\ gw[c].pc = "returned" /\ ~gw[c].result[1].fallback_used
        /\ gw[d].pc = "returned" /\ gw[d].result[1].fallback_used
        /\ gw[d].model = UnknownProvider
        /\ gw[d].result[1].provider = "groq"

-----------------------------------------------------------------------------
(* C2, C10: SQLAgent.generate_and_execute *)

AgentReturned == a_pc = "returned"
AgentHasText == a_outcome /= None /\ ~a_outcome[1].raised /\ a_outcome[1].text /= None
\* the SQL extracted from the response fails validate_query
ExtractedSqlRejected ==
    /\ AgentHasText
    /\ ~IsFalsy(a_sql_query)
    /\ ~validate_query(a_sql_query[1]).is_valid
\* no SQL can be extracted from the response
NoSqlExtracted ==
    /\ AgentHasText
    /\ LET sql == extract_sql(a_outcome[1].text[1])
       IN  sql = None \/ sql[1] = <<>>

\* C2: whenever the SQL extracted from the response fails validate_query,
\* nothing is sent to the database for it (no SET statement_timeout, no
\* statement, execute_safe_query is not called), and generate_and_execute
\* returns confidence_score 0.0 whatever confidence the response stated,
\* results null, and an error that contains the reason of the validator.
C2_RejectedSqlNotExecuted ==
    (a_pc \in {"execute", "returned"} /\ ExtractedSqlRejected) =>
        /\ GateLog = <<>>
        /\ g_pc = "idle"
        /\ a_calls = <<"validate_query">>
        /\ AgentReturned
        /\ a_ret[1].sql = a_sql_query
        /\ a_ret[1].confidence_score = 0
        /\ a_ret[1].results = None
        /\ a_ret[1].error /= None
        /\ Contains(a_ret[1].error[1], validate_query(a_sql_query[1]).reason[1])

\* a fenced DELETE with 'Confidence: High' is returned with confidence 0 after
\* the metadata search went to the database
C2_Witness ==
    /\ AgentReturned
    /\ ExtractedSqlRejected
    /\ Contains(a_sql_query[1], kwDELETE)
    /\ a_confidence = 9
    /\ a_ret[1].confidence_score = 0
    /\ db_log /= <<>>

\* C10: when no SQL can be extracted from the response, generate_and_execute
\* calls neither validate_query nor execute_safe_query, no statement reaches
\* the database, and it returns sql null, confidence_score 0.0, results null
\* and a non-null error.
C10_NoSqlShortCircuits ==
    (a_pc \in {"execute", "returned"} /\ NoSqlExtracted) =>
        /\ a_calls = <<>>
        /\ GateLog = <<>>
        /\ g_pc = "idle"
        /\ AgentReturned
        /\ a_ret[1].sql = None
        /\ a_ret[1].confidence_score = 0
        /\ a_ret[1].results = None
        /\ a_ret[1].error /= None

\* a fenced block that holds only white space: the SQL extracted is the empty
\* string, not None, while the response states a confidence
C10_Witness ==
    /\ AgentReturned
    /\ NoSqlExtracted
    /\ a_sql_query = Some(<<>>)
    /\ a_confidence = 9
    /\ a_ret[1].sql = None
    /\ a_ret[1].confidence_score = 0

-----------------------------------------------------------------------------
(* C9: SupervisorAgent.classify_intent *)

ClassifyReturned == s_pc = "returned"
Intents == {"sql_query", "documentation"}
\* the call raised, or .strip() raised on a text that is None
ClassifyRaised == s_outcome[1].raised \/ s_outcome[1].text = None
ResponseContains(label) ==
    /\ ~ClassifyRaised
    /\ Contains(upper(s_outcome[1].text[1]), label)

\* C9: classify_intent returns "sql_query" whenever the gateway call raises
\* and whenever the response text is empty or contains neither of the labels
\* SQL_QUERY and DOCUMENTATION; it returns no value other than "sql_query"
\* and "documentation".
C9_DefaultsToSqlQuery ==
    ClassifyReturned =>
        /\ s_intent[1] \in Intents
        /\ (\/ ClassifyRaised
            \/ s_outcome[1].text[1] = <<>>
            \/ ~ResponseContains(txtSQL_QUERY) /\ ~ResponseContains(txtDOCUMENTATION))
           => s_intent[1] = "sql_query"

\* C9 as amended: classify_intent returns "sql_query" whenever the gateway
\* call raises and whenever the response text is empty or contains, in any
\* letter casing, neither SQL nor DOC; it returns no value other than
\* "sql_query" and "documentation".
C9_DefaultsToSqlQueryAmended ==
    ClassifyReturned =>
        /\ s_intent[1] \in Intents
        /\ (\/ ClassifyRaised
            \/ s_outcome[1].text[1] = <<>>
            \/ ~ResponseContains(txtSQL) /\ ~ResponseContains(txtDOC))
           => s_intent[1] = "sql_query"

\* a text that is not empty and names neither label is answered "sql_query"
C9_Witness ==
    /\ ClassifyReturned
    /\ ~ClassifyRaised
    /\ Len(s_outcome[1].text[1]) > 1
    /\ ~ResponseContains(txtSQL) /\ ~ResponseContains(txtDOC)
    /\ ResponseContains(<<"Q", "U", "E", "R", "Y">>)
    /\ s_intent = Some("sql_query")

-----------------------------------------------------------------------------
(* C11, C12: the outcomes of SQLAgent.generate_and_execute *)

\* execute_safe_query was called and reported a failure
ExecutionReportedFailure == g_pc = "returned" /\ ~g_ret[1].success
AgentFailed == AgentReturned /\ a_ret[1].error /= None

\* C11: when the extracted SQL passes validation and its execution fails,
\* generate_and_execute returns the confidence read from the response
\* unchanged, results null and the error of the execution; no other response
\* with an error has a confidence_score other than 0.0.
C11_ExecutionFailureKeepsConfidence ==
    /\ (AgentReturned /\ ExecutionReportedFailure) =>
          /\ a_ret[1].sql = a_sql_query
          /\ a_ret[1].confidence_score = calculate_confidence(a_outcome[1].text[1])
          /\ a_ret[1].confidence_score /= 0
          /\ a_ret[1].results = None
          /\ a_ret[1].error = g_ret[1].error
          /\ a_ret[1].error /= None
    /\ (AgentFailed /\ a_ret[1].confidence_score /= 0) => ExecutionReportedFailure

\* the statement raised at the database after a response that said
\* 'Confidence: High': the response carries 0.9 and the error of the statement
C11_Witness ==
    /\ AgentReturned
    /\ ExecutionReportedFailure
    /\ \E i \in 1..Len(GateLog) : GateLog[i].kind = "query" /\ GateLog[i].raised
    /\ a_ret[1].confidence_score = 9
    /\ a_ret[1].error = Some(ErrorOf("query"))

\* C12: in every response of generate_and_execute, on every path, sql is
\* null only if error is not null.
C12_NullSqlHasError ==
    AgentReturned => (a_ret[1].sql = None => a_ret[1].error /= None)

\* the search of the metadata raised: sql is null and the error is set
C12_Witness ==
    /\ AgentReturned
    /\ a_outcome = None
    /\ a_ret[1].sql = None
    /\ a_ret[1].error = Some(ErrorOf("metadata query"))

-----------------------------------------------------------------------------
(* C20: the order of the backends in a pass of AIGateway.generate *)

ClaimPriority == <<"groq", "openai", "gemini", "local">>
\* the backends of a pass with primary p, in the order they are to be tried
ClaimChain(p) == <<p>> \o SelectSeq(ClaimPriority, LAMBDA q : q /= p)

\* C20: in a pass of generate the backends are called one after another, the
\* requested or default one first, then GROQ, OPENAI, GEMINI, LOCAL without
\* the requested one; none is called twice in the pass and none is called
\* after the first that succeeds.
C20_FallbackOrder ==
    \A c \in Coroutines :
        LET tried == PassAttempts(c)
            chain == ClaimChain(gw[c].model)
        IN  /\ Len(tried) <= Len(chain)
            /\ \A i \in 1..Len(tried) : tried[i].provider = chain[i]
            /\ \A i, j \in 1..Len(tried) : tried[i].provider = tried[j].provider => i = j
            /\ \A i \in 1..(Len(tried) - 1) : ~tried[i].ok

\* a pass with primary GEMINI went on to GROQ and was answered by OPENAI
C20_Witness ==
    \E c \in Coroutines :
        /\ gw[c].pc = "returned"
        /\ gw[c].model = "gemini"
        /\ Len(PassAttempts(c)) = 3
        /\ PassAttempts(c)[2].provider = "groq"
        /\ PassAttempts(c)[3].provider = "openai"

-----------------------------------------------------------------------------
(* C19: the confidence of the SQL agent *)

markHigh == <<"c", "o", "n", "f", "i", "d", "e", "n", "c", "e", ":", " ", "h", "i", "g", "h">>
markMedium == <<"c", "o", "n", "f", "i", "d", "e", "n", "c", "e", ":", " ",
                "m", "e", "d", "i", "u", "m">>
markLow == <<"c", "o", "n", "f", "i", "d", "e", "n", "c", "e", ":", " ", "l", "o", "w">>
\* the marker occurs in the response of the backend in some letter casing
HasMarker(mark) ==
    \E i \in 1..Len(a_outcome[1].text[1]) : MatchAtI(a_outcome[1].text[1], i, mark)
\* the response was parsed: its confidence has been computed
AgentParsed == a_pc \in {"execute", "returned"} /\ AgentHasText
ClaimScores == {0, 4, 7, 9}

\* C19: the confidence is a fixed lookup on the response: an occurrence in
\* any casing of 'Confidence: High' gives 0.9, of 'Confidence: Medium' 0.7,
\* of 'Confidence: Low' 0.4, no marker gives 0.7; every confidence_score
\* generate_and_execute returns is one of 0.0, 0.4, 0.7, 0.9.
C19_ConfidenceLookup ==
    /\ AgentParsed =>
          /\ HasMarker(markHigh) => a_confidence = 9
          /\ HasMarker(markMedium) => a_confidence = 7
          /\ HasMarker(markLow) => a_confidence = 4
          /\ (~HasMarker(markHigh) /\ ~HasMarker(markMedium) /\ ~HasMarker(markLow))
                => a_confidence = 7
    /\ AgentReturned => a_ret[1].confidence_score \in ClaimScores

\* C19 as amended: the markers are looked up in the order High, Medium, Low
\* and the first that occurs in any casing decides: 0.9, 0.7, 0.4; no marker
\* gives 0.7; every confidence_score generate_and_execute returns is one of
\* 0.0, 0.4, 0.7, 0.9.
C19_ConfidenceLookupInOrder ==
    /\ AgentParsed =>
          a_confidence = IF HasMarker(markHigh) THEN 9
                         ELSE IF HasMarker(markMedium) THEN 7
                         ELSE IF HasMarker(markLow) THEN 4
                         ELSE 7
    /\ AgentReturned => a_ret[1].confidence_score \in ClaimScores

\* a response with a SELECT and the marker 'confidence: low' was executed and
\* is returned with 0.4
C19_Witness ==
    /\ AgentReturned
    /\ AgentParsed
    /\ HasMarker(markLow) /\ ~HasMarker(markHigh) /\ ~HasMarker(markMedium)
    /\ a_ret[1].results /= None
    /\ a_ret[1].confidence_score = 4

-----------------------------------------------------------------------------
(* C13: a failure of the gateway under route_query *)

\* the call of generate awaited by the SQL agent, by the documentation agent,
\* raised
SqlAgentGenerationRaised == a_outcome /= None /\ a_outcome[1].raised
DocAgentGenerationRaised == d_outcome /= None /\ d_outcome[1].raised
\* route_query is in one of its positions and so is the function it awaits;
\* every step that follows an awaited call can be taken, and what is returned
\* is a dict: no exception leaves the agents, the classifier or route_query
RouteNeverRaises ==
    /\ r_pc \in {"classify", "sql_agent", "doc_agent", "returned"}
    /\ r_pc = "classify" =>
          /\ s_pc \in {"generate", "classify", "returned"}
          /\ s_pc = "classify" => ENABLED ClassifyReturn
          /\ s_pc = "returned" => (s_intent /= None /\ ENABLED RouteDispatch)
    /\ r_pc = "sql_agent" =>
          /\ a_pc \in {"context", "generate", "parse", "execute", "returned"}
          /\ a_pc = "context" => ENABLED AgentContext
          /\ a_pc = "parse" => a_outcome /= None
          /\ a_pc = "execute" =>
                /\ g_pc \in {"validate", "set_timeout", "execute", "fetch", "reset",
                             "except", "returned"}
                /\ g_pc = "returned" => ENABLED AgentFinish
          /\ a_pc = "returned" => (a_ret /= None /\ ENABLED RouteReturn)
    /\ r_pc = "doc_agent" =>
          /\ d_pc \in {"context", "generate", "answer", "returned"}
          /\ d_pc = "context" => ENABLED DocContext
          /\ d_pc = "answer" => ENABLED DocReturn
          /\ d_pc = "returned" => (d_ret /= None /\ ENABLED RouteReturn)
    /\ r_pc = "returned" => r_ret /= None

\* C13: when generate raises, no exception leaves route_query; the SQL agent
\* returns sql null and a non-null error, the documentation agent returns
\* answer null and a non-null error.
C13_GenerationFailureStructured ==
    /\ RouteNeverRaises
    /\ (a_pc = "returned" /\ SqlAgentGenerationRaised) =>
          (a_ret[1].sql = None /\ a_ret[1].error /= None)
    /\ (d_pc = "returned" /\ DocAgentGenerationRaised) =>
          (d_ret[1].answer = None /\ d_ret[1].error /= None)

\* C13 as amended: the documentation agent returns as its answer the text
\* 'Error generating answer: ' followed by the error, with a non-null error;
\* the rest as claimed.
C13_GenerationFailureReported ==
    /\ RouteNeverRaises
    /\ (a_pc = "returned" /\ SqlAgentGenerationRaised) =>
          (a_ret[1].sql = None /\ a_ret[1].error /= None)
    /\ (d_pc = "returned" /\ DocAgentGenerationRaised) =>
          /\ d_ret[1].error /= None
          /\ d_ret[1].answer = Some(<<"Error generating answer: ">> \o d_ret[1].error[1])
          /\ d_ret[1].sql = None

\* the classifier was answered DOCUMENTATION, then the call of generate of the
\* documentation agent raised, and route_query returned the agent's dict
C13_Witness ==
    /\ r_pc = "returned"
    /\ r_intent = Some("documentation")
    /\ DocAgentGenerationRaised
    /\ r_ret[1].agent_used = "doc_agent"
    /\ r_ret[1].response.error /= None
    /\ r_ret[1].response.answer /= None

-----------------------------------------------------------------------------
(* The validator agent *)

FracEq(a, b) == a.num * b.den = b.num * a.den

ValidatorReturned == va_pc = "returned"
\* the statement that fetches the golden queries raised
FetchRaised ==
    \E i \in 1..Len(db_log) : db_log[i].kind = "golden queries" /\ db_log[i].raised
\* a golden query matched and execute_safe_query reported a failure for it
GoldenExecutionFailed == va_golden /= None /\ g_pc = "returned" /\ ~g_ret[1].success
\* the message e occurs in one of the notes
NotesContain(notes, e) ==
    \E n \in 1..Len(notes) :
        \E i \in 0..(Len(notes[n].text) - Len(e)) :
            SubSeq(notes[n].text, i + 1, i + Len(e)) = e

\* validate_query is in one of its positions and so is execute_safe_query when
\* awaited; what execute_safe_query returned is what the next step reads (the
\* rows on success, the error otherwise) and what validate_query returned is a
\* dict: no exception leaves validate_query
ValidatorNeverRaises ==
    /\ va_pc \in {"find", "execute", "returned"}
    /\ va_pc = "execute" =>
          /\ va_golden /= None
          /\ g_pc \in {"validate", "set_timeout", "execute", "fetch", "reset", "except",
                       "returned"}
          /\ g_pc = "returned" =>
                /\ g_ret /= None
                /\ g_ret[1].success => g_ret[1].results /= None
                /\ ~g_ret[1].success => g_ret[1].error /= None
    /\ va_pc = "returned" => va_ret /= None

\* C14: no exception leaves validate_query; when fetching the golden queries
\* raises, or the matched golden query cannot be executed, it returns a trust
\* score of exactly 0.5 and a note that contains the error.
C14_ValidationFailureNeutral ==
    /\ ValidatorNeverRaises
    /\ (ValidatorReturned /\ FetchRaised) =>
          /\ FracEq(va_ret[1].trust_score, Frac(1, 2))
          /\ NotesContain(va_ret[1].validation_notes, ErrorOf("golden queries"))
    /\ (ValidatorReturned /\ GoldenExecutionFailed) =>
          /\ FracEq(va_ret[1].trust_score, Frac(1, 2))
          /\ NotesContain(va_ret[1].validation_notes, g_ret[1].error[1])

\* the statement of a matched golden query raised in the database, and
\* validate_query returned
C14_Witness ==
    /\ ValidatorReturned
    /\ GoldenExecutionFailed
    /\ \E i \in 1..Len(db_log) : db_log[i].kind = "query" /\ db_log[i].raised
    /\ va_ret[1].validation_notes /= <<>>

\* the golden query that matched is one whose SQL validate_query rejects
MatchedGoldenRejected == va_golden /= None /\ ~validate_query(va_golden[1].sql_query).is_valid
\* the statements execute_safe_query sent to the database
ExecutedStatements ==
    SelectSeq(db_log, LAMBDA st : st.kind \in {"SET statement_timeout", "query",
                                                "RESET statement_timeout"})

\* C15: a matched golden query whose SQL validate_query rejects is run all the
\* same: when validate_query returns, its SQL was sent to the database.
C15_GoldenBypassesValidation ==
    (ValidatorReturned /\ MatchedGoldenRejected) =>
        \E i \in 1..Len(db_log) : db_log[i].kind = "query"

\* C15 as amended: a matched golden query whose SQL validate_query rejects is
\* not run: no statement is sent for it, and validate_query returns a trust
\* score of 0.5, the question of that golden query as matched_golden, and the
\* one note 'Could not execute golden query: Security validation failed: '
\* followed by the reason of the rejection.
C15_GoldenIsValidated ==
    MatchedGoldenRejected =>
        /\ ExecutedStatements = <<>>
        /\ ValidatorReturned =>
              /\ FracEq(va_ret[1].trust_score, Frac(1, 2))
              /\ va_ret[1].matched_golden = Some(va_golden[1].question)
              /\ va_ret[1].validation_notes =
                    <<Note(<<"Could not execute golden query: ", "Security validation failed: ">>
                           \o validate_query(va_golden[1].sql_query).reason[1], <<>>)>>

\* the golden query whose SQL is DELETE matched, and validate_query returned
C15_Witness ==
    /\ ValidatorReturned
    /\ MatchedGoldenRejected
    /\ va_golden[1].sql_query = kwDELETE
    /\ g_pc = "returned"

\* the words of a text as the claims count them: cut at white space, letters
\* taken without their case; word is the word being read
RECURSIVE ClaimWordsFrom(_, _, _)
ClaimWordsFrom(s, i, word) ==
    IF i > Len(s) THEN (IF word = <<>> THEN {} ELSE {word})
    ELSE IF s[i] \in {" ", "\n", "\t"}
    THEN (IF word = <<>> THEN {} ELSE {word}) \cup ClaimWordsFrom(s, i + 1, <<>>)
    ELSE ClaimWordsFrom(s, i + 1, Append(word, LowerChar(s[i])))
ClaimWords(s) == ClaimWordsFrom(s, 1, <<>>)
SharedWords(s, t) == Cardinality(ClaimWords(s) \cap ClaimWords(t))

\* the golden queries were fetched and no active one shares three words with
\* the question
NoGoldenShares3Words ==
    /\ \E i \in 1..Len(db_log) : db_log[i].kind = "golden queries" /\ ~db_log[i].raised
    /\ \A i \in 1..Len(golden_queries) :
          golden_queries[i].is_active =>
              SharedWords(va_question, golden_queries[i].question) < 3

\* C16: when the active golden queries were fetched and none of them shares at
\* least three words with the question, validate_query returns a trust score
\* of exactly 0.6, matched_golden null and exactly one note, and no SQL is
\* executed.
C16_NoMatchDefault ==
    NoGoldenShares3Words =>
        /\ ValidatorReturned
        /\ FracEq(va_ret[1].trust_score, Frac(6, 10))
        /\ va_ret[1].matched_golden = None
        /\ Len(va_ret[1].validation_notes) = 1
        /\ ExecutedStatements = <<>>

\* two golden queries were fetched, the question has words in common with them
\* but fewer than three, and validate_query returned
C16_Witness ==
    /\ ValidatorReturned
    /\ NoGoldenShares3Words
    /\ Len(golden_queries) = 2
    /\ \E i \in 1..2 : SharedWords(va_question, golden_queries[i].question) = 2

\* execute_safe_query returned the rows of the matched golden query
GoldenRowsReturned == va_golden /= None /\ g_pc = "returned" /\ g_ret[1].success
\* the Jaccard index of the words of the two SQL texts as the claims normalise
\* them: upper case (here by comparing without case), a trailing ; dropped
ClaimNormalWords(sql) ==
    LET t == rstripChars(sql, {" ", "\n", "\t"})
    IN  ClaimWords(IF t /= <<>> /\ t[Len(t)] = ";" THEN SubSeq(t, 1, Len(t) - 1) ELSE t)
ClaimJaccard(sql1, sql2) ==
    LET w1 == ClaimNormalWords(sql1)
        w2 == ClaimNormalWords(sql2)
    IN  IF w1 \cup w2 = {} THEN Frac(1, 1)
        ELSE Frac(Cardinality(w1 \cap w2), Cardinality(w1 \cup w2))
\* the hundredths nearest to the fraction q; two of them when q lies halfway
ClaimRounded(q) ==
    {h \in 0..100 : (200 * q.num - q.den <= 2 * h * q.den) /\ (2 * h * q.den <= 200 * q.num + q.den)}

\* C17: when the matched golden query is executed and returns as many rows as
\* were generated, with a first row identical to the generated first row,
\* whatever the values, NULL included, the trust score returned is
\* round(1.0 * 0.7 + J * 0.3, 2), J the Jaccard index of the two normalised
\* SQL texts.
C17_IdenticalRowsTrust ==
    (/\ ValidatorReturned
     /\ GoldenRowsReturned
     /\ Len(va_results) = Len(g_ret[1].results[1])
     /\ va_results /= <<>>
     /\ va_results[1] = g_ret[1].results[1][1]) =>
        LET J == ClaimJaccard(va_generated_sql, va_golden[1].sql_query)
        IN  \E h \in ClaimRounded(Frac(7 * J.den + 3 * J.num, 10 * J.den)) :
                FracEq(va_ret[1].trust_score, Frac(h, 100))

\* C17 for first rows without NULL: the same, when no value of the identical
\* first rows is NULL
C17_IdenticalRowsTrustNoNull ==
    (/\ ValidatorReturned
     /\ GoldenRowsReturned
     /\ Len(va_results) = Len(g_ret[1].results[1])
     /\ va_results /= <<>>
     /\ va_results[1] = g_ret[1].results[1][1]
     /\ \A key \in DOMAIN va_results[1] : va_results[1][key] /= None) =>
        LET J == ClaimJaccard(va_generated_sql, va_golden[1].sql_query)
        IN  \E h \in ClaimRounded(Frac(7 * J.den + 3 * J.num, 10 * J.den)) :
                FracEq(va_ret[1].trust_score, Frac(h, 100))

\* C18: the trust score validate_query returns lies in [0, 1] and is a
\* multiple of 0.01, on every return path.
C18_TrustInUnitInterval ==
    ValidatorReturned =>
        LET t == va_ret[1].trust_score
        IN  /\ t.den > 0
            /\ 0 <= t.num
            /\ t.num <= t.den
            /\ (100 * t.num) % t.den = 0

\* validate_query returned the rounded score of a comparison whose exact value,
\* 0.7 + 0.3 / 4, is no multiple of 0.01
C18_Witness ==
    /\ ValidatorReturned
    /\ GoldenRowsReturned
    /\ va_generated_sql = kwSELECT
    /\ va_results /= <<>>
    /\ va_results = g_ret[1].results[1]
    /\ va_results[1]["k"] /= None
    /\ va_ret[1].trust_score.num \in {77, 78}

-----------------------------------------------------------------------------
(* The gateway: retry, usage counters, termination *)

\* the calls of backends made so far, each named by its coroutine and its place
AttemptIds == UNION {{<<c, i>> : i \in 1..Len(gw[c].attempts)} : c \in Coroutines}
AttemptAt(id) == gw[id[1]].attempts[id[2]]
AttemptsAgainst(b) == {id \in AttemptIds : AttemptAt(id).provider = b}
SuccessesOf(b) == {id \in AttemptIds : AttemptAt(id).provider = b /\ AttemptAt(id).ok}
RequestsRecorded(b) ==
    IF b \in DOMAIN token_usage.by_provider THEN token_usage.by_provider[b].requests ELSE 0
TokensRecorded(b) ==
    IF b \in DOMAIN token_usage.by_provider THEN token_usage.by_provider[b].tokens ELSE 0
BackendNames == AIProvider \cup {UnknownProvider}
\* the sum of the values of a function
RECURSIVE SumOf(_)
SumOf(f) ==
    IF DOMAIN f = {} THEN 0
    ELSE LET x == CHOOSE y \in DOMAIN f : TRUE
         IN  f[x] + SumOf([y \in DOMAIN f \ {x} |-> f[y]])
ReturnedCalls == {c \in Coroutines : gw[c].pc = "returned"}

\* C21: a backend other than the primary is called only after the primary was
\* called and failed as many times as the cap of the retry allows.
C21_PrimaryRetriedBeforeFallback ==
    \A c \in Coroutines :
        \A i \in 1..Len(gw[c].attempts) :
            gw[c].attempts[i].provider /= gw[c].model =>
                Cardinality({j \in 1..(i - 1) :
                    /\ gw[c].attempts[j].provider = gw[c].model
                    /\ ~gw[c].attempts[j].ok}) >= stop_after_attempt

\* C22: the counters hold every call of a backend, failed or not: the requests
\* recorded for b are the calls made of b, total_requests is their number.
C22_EveryAttemptRecorded ==
    /\ \A b \in BackendNames : RequestsRecorded(b) = Cardinality(AttemptsAgainst(b))
    /\ token_usage.total_requests = Cardinality(AttemptIds)

\* C22 as amended: the counters hold every call of a backend that returned a
\* result, and no call that raised: the requests recorded for b are the
\* successful calls of b, total_requests is their number, which is the number of
\* calls of generate that returned.
C22_EverySuccessRecorded ==
    /\ \A b \in BackendNames : RequestsRecorded(b) = Cardinality(SuccessesOf(b))
    /\ DOMAIN token_usage.by_provider \subseteq BackendNames
    /\ token_usage.total_requests = Cardinality({id \in AttemptIds : AttemptAt(id).ok})
    /\ token_usage.total_requests = Cardinality(ReturnedCalls)

\* two calls were answered by the same backend, one of them after its primary
\* failed
C22_Witness ==
    \E c, d \in Coroutines :
        /\ c /= d
        /\ gw[c].pc = "returned" /\ gw[d].pc = "returned"
        /\ Len(gw[c].attempts) = 1 /\ Len(gw[d].attempts) = 2
        /\ gw[c].result[1].provider = gw[d].result[1].provider
        /\ RequestsRecorded(gw[c].result[1].provider) = 2

\* C23: with the calls of generate interleaved in any way, once all have
\* returned total_requests is their number and total_tokens the sum of the
\* tokens of their results; at all times both totals are the sums of the
\* entries of by_provider.
C23_CountersConsistent ==
    /\ token_usage.total_requests =
          SumOf([b \in DOMAIN token_usage.by_provider |-> token_usage.by_provider[b].requests])
    /\ token_usage.total_tokens =
          SumOf([b \in DOMAIN token_usage.by_provider |-> token_usage.by_provider[b].tokens])
    /\ ReturnedCalls = Coroutines =>
          /\ token_usage.total_requests = Cardinality(Coroutines)
          /\ token_usage.total_tokens =
                SumOf([c \in Coroutines |-> gw[c].result[1].tokens])

\* all calls have returned; two of them ran interleaved, each having failed on
\* its primary before the other was answered by the same backend
C23_Witness ==
    /\ ReturnedCalls = Coroutines
    /\ \E c, d \in Coroutines :
        /\ c /= d
        /\ gw[c].result[1].provider = gw[d].result[1].provider
        /\ Len(gw[c].attempts) >= 2 /\ Len(gw[d].attempts) >= 2
        /\ token_usage.by_provider[gw[c].result[1].provider].requests = 2
        /\ token_usage.total_tokens = gw[c].result[1].tokens + gw[d].result[1].tokens

\* C24: every call of generate returns a result: the error of all backends
\* having failed is never raised, no second pass over the chain is made, and a
\* call that was begun comes to its return.
C24_GenerateTerminates ==
    /\ [](\A c \in Coroutines : gw[c].pc /= "raised" /\ gw[c].pass <= 1)
    /\ \A c \in Coroutines :
          [](gw[c].pc \in {"primary", "fallback"} => <>(gw[c].pc = "returned"))

\* a call for an unknown backend has returned the result of the local stub,
\* after the three remote backends failed
C24_Witness ==
    \E c \in Coroutines :
        /\ gw[c].pc = "returned"
        /\ gw[c].model = UnknownProvider
        /\ Len(gw[c].attempts) = 5
        /\ gw[c].result[1].provider = AIProvider_LOCAL
        /\ gw[c].pass = 1

-----------------------------------------------------------------------------
(* C25: SQLAgent._extract_sql *)

\* the texts that stand in the response between an opening fence and a closing
\* fence on a line of its own, and begin with word; letters without their case
ClaimBlockTexts(response, opener, word) ==
    {SubSeq(response, p[1] + Len(opener), p[2] - 1) :
        p \in {q \in (1..Len(response)) \X (1..Len(response)) :
                  /\ MatchAtI(response, q[1], opener)
                  /\ MatchAtI(response, q[1] + Len(opener), word)
                  /\ q[2] >= q[1] + Len(opener) + Len(word)
                  /\ MatchAt(response, q[2], fenceClose)}}
ClaimLineHoldsSelect(line) == \E i \in 1..Len(line) : MatchAtI(line, i, kwSELECT)
ClaimLineEnds(line) == LET l == strip(line) IN l /= <<>> /\ l[Len(l)] = ";"

\* C25: _extract_sql returns the text of a fenced block tagged sql when there
\* is one; else the text of an untagged fenced block that begins with SELECT
\* when there is one; else, when a line holds SELECT, the lines from the first
\* such line to the first line from there on that ends with ; (to the last line
\* when none does); and null only when none of the three applies. The text is
\* returned without the white space around it.
C25_ExtractionOrder ==
    AgentParsed =>
        LET response == a_outcome[1].text[1]
            tagged == ClaimBlockTexts(response, fenceSql, <<>>)
            untagged == ClaimBlockTexts(response, fenceOpen, kwSELECT)
            lines == split_lines(response)
            holding == {n \in 1..Len(lines) : ClaimLineHoldsSelect(lines[n])}
        IN  IF tagged /= {}
            THEN \E t \in tagged : a_sql_query = Some(strip(t))
            ELSE IF untagged /= {}
            THEN \E t \in untagged : a_sql_query = Some(strip(t))
            ELSE IF holding /= {}
            THEN \E first \in holding : \E last \in first..Len(lines) :
                    /\ \A n \in holding : first <= n
                    /\ \A n \in first..(last - 1) : ~ClaimLineEnds(lines[n])
                    /\ ClaimLineEnds(lines[last]) \/ last = Len(lines)
                    /\ a_sql_query = Some(strip(join_lines(SubSeq(lines, first, last))))
            ELSE a_sql_query = None

\* a response that holds an untagged block beginning with select and, inside
\* it, a block tagged SQL: the text of the tagged block was returned
C25_Witness ==
    /\ AgentParsed
    /\ ClaimBlockTexts(a_outcome[1].text[1], fenceSql, <<>>) /= {}
    /\ ClaimBlockTexts(a_outcome[1].text[1], fenceOpen, kwSELECT) /= {}
    /\ a_sql_query = Some(kwDELETE)

-----------------------------------------------------------------------------
(* C26, C27: the golden query that matches *)

\* the rows of the table that are active and share at least three words with
\* the question, by their places in the table
QualifyingRows ==
    {i \in 1..Len(golden_queries) :
        /\ golden_queries[i].is_active
        /\ SharedWords(va_question, golden_queries[i].question) >= 3}
GoldenFetched ==
    \E i \in 1..Len(db_log) : db_log[i].kind = "golden queries" /\ ~db_log[i].raised

\* C26: the golden query found is the first row of the table that is active
\* and shares at least three words with the question: never an inactive row,
\* never a row that shares fewer, never a later row in place of an earlier one
\* that qualifies; none is found only when no row qualifies.
C26_FirstQualifyingGolden ==
    GoldenFetched =>
        IF QualifyingRows = {}
        THEN va_golden = None
        ELSE \E i \in QualifyingRows :
                /\ \A j \in QualifyingRows : i <= j
                /\ va_golden = Some(golden_queries[i])

\* the first row is inactive and shares three words with the question, the
\* second row is active and was found
C26_Witness ==
    /\ GoldenFetched
    /\ Len(golden_queries) = 2
    /\ va_golden = Some(golden_queries[2])
    /\ ~golden_queries[1].is_active
    /\ SharedWords(va_question, golden_queries[1].question) >= 3

\* C27: whenever a golden query matched, the notes validate_query returns
\* contain the question of that golden query, whether it was executed and
\* compared or could not be executed.
C27_NotesNameMatchedGolden ==
    (ValidatorReturned /\ va_golden /= None) =>
        NotesContain(va_ret[1].validation_notes, va_golden[1].question)

\* C27 as amended: whenever a golden query matched, matched_golden is its
\* question; the notes contain that question, in a note 'Golden query match: '
\* followed by it, when the golden query was executed and compared; when it
\* could not be executed the notes are the one note of the execution error.
C27_MatchedGoldenReported ==
    (ValidatorReturned /\ va_golden /= None) =>
        /\ va_ret[1].matched_golden = Some(va_golden[1].question)
        /\ GoldenRowsReturned =>
              \E n \in 1..Len(va_ret[1].validation_notes) :
                  va_ret[1].validation_notes[n].text =
                      <<"Golden query match: ">> \o va_golden[1].question
        /\ GoldenExecutionFailed =>
              va_ret[1].validation_notes =
                  <<Note(<<"Could not execute golden query: ">> \o g_ret[1].error[1], <<>>)>>

\* a golden query matched, was executed and its rows were compared with rows
\* of another count
C27_Witness ==
    /\ ValidatorReturned
    /\ GoldenRowsReturned
    /\ Len(va_ret[1].validation_notes) = 4
    /\ Len(va_results) /= Len(g_ret[1].results[1])
    /\ NotesContain(va_ret[1].validation_notes, va_golden[1].question)

-----------------------------------------------------------------------------
(* C28: what the gate sends after sanitize_query *)

\* C28: the text execute_safe_query sends to the database is that of a string
\* which passed validate_query, does not end with the separator ; and holds no
\* two white space characters in a row.
C28_SentTextSanitized ==
    \A n \in 1..Len(db_log) :
        db_log[n].kind = "query" =>
            LET sent == db_log[n].text
            IN  /\ validate_query(g_arg).is_valid
                /\ sent = <<>> \/ sent[Len(sent)] /= ";"
                /\ \A k \in 1..(Len(sent) - 1) :
                      ~(sent[k] \in {" ", "\n", "\t"} /\ sent[k + 1] \in {" ", "\n", "\t"})

-----------------------------------------------------------------------------
(* C29: when chat calls the validator *)

ValidatorInvoked == va_pc /= "idle"
RouteReturned == r_pc = "returned"
\* route_query answered through the documentation agent, or the SQL agent
\* extracted no SQL, or its SQL was rejected or failed in execution
NothingToValidate ==
    /\ RouteReturned
    /\ \/ r_ret[1].agent_used = "doc_agent"
       \/ r_ret[1].response.sql = None
       \/ r_ret[1].response.results = None
       \/ r_ret[1].response.error /= None

\* C29: in one request the validator is called at most once, and only after
\* route_query returned a response of the SQL agent with SQL, with rows (if
\* none) and without error; on the documentation path and after a failure
\* of extraction, of the security validation or of the execution it is not
\* called and trust_score stays null.
C29_ValidatorOnlyOnSqlSuccess ==
    /\ c_validator_calls <= 1
    /\ ValidatorInvoked <=> c_validator_calls = 1
    /\ ValidatorInvoked =>
          /\ RouteReturned
          /\ r_ret[1].agent_used = "sql_agent"
          /\ r_intent = Some("sql_query")
          /\ r_ret[1].response.sql /= None
          /\ r_ret[1].response.results /= None
          /\ r_ret[1].response.error = None
    /\ NothingToValidate =>
          /\ ~ValidatorInvoked
          /\ c_trust_score = None
          /\ c_pc = "responded" => c_ret[1].trust_score = None
    /\ ~RouteReturned => (c_trust_score = None /\ ~ValidatorInvoked)

\* a request answered by the SQL agent without error was validated against a
\* golden query that matched, and the ChatResponse carries the trust score
C29_Witness ==
    /\ c_pc = "responded"
    /\ c_validator_calls = 1
    /\ va_golden /= None
    /\ c_ret[1].agent_used = "sql_agent"
    /\ c_ret[1].trust_score /= None
    /\ c_ret[1].results /= None

-----------------------------------------------------------------------------
(* C30: RateLimiter.is_allowed *)

\* the calls of is_allowed for identifier that were answered True, by their
\* places in the sequence of calls
AllowedCalls(identifier) ==
    {n \in 1..Len(rl_log) : rl_log[n].identifier = identifier /\ rl_log[n].allowed}

\* C30: for every identifier, the calls answered True whose times lie in one
\* window of window_seconds (from a time on, up to window_seconds later, that
\* end excluded) are at most max_requests; and the answer to each call is
\* True exactly when fewer than max_requests earlier calls for the same
\* identifier that were answered True lie less than window_seconds back:
\* neither the calls answered False nor the calls for other identifiers count.
C30_RateLimitHolds ==
    \A n \in 1..Len(rl_log) :
        LET call == rl_log[n]
            recent == {m \in AllowedCalls(call.identifier) :
                          m < n /\ call.time - rl_log[m].time < window_seconds}
        IN  /\ \A m \in 1..(n - 1) : rl_log[m].time <= call.time
            /\ call.allowed <=> Cardinality(recent) < max_requests
            /\ call.allowed => Cardinality(recent) + 1 <= max_requests

\* an identifier was refused, the other was allowed at the same time, and the
\* first was allowed again once its oldest request had left the window
C30_Witness ==
    \E i, j, k \in 1..Len(rl_log) :
        /\ i < j /\ j < k
        /\ ~rl_log[i].allowed
        /\ rl_log[j].identifier /= rl_log[i].identifier
        /\ rl_log[j].time = rl_log[i].time
        /\ rl_log[j].allowed
        /\ rl_log[k].identifier = rl_log[i].identifier
        /\ rl_log[k].allowed
        /\ rl_log[k].time < rl_log[i].time + window_seconds

=============================================================================
